---- MODULE Spec2Model ----
(***************************************************************************)
(* The envelope-encryption engine of src/src/core/encryption/crypto.ts:    *)
(* the module-level session cache, getOrCreateMasterKey with its pending   *)
(* derivation promise, clearEncryptionCache, encryptContent,               *)
(* decryptContent and validatePassword, run by cooperatively scheduled     *)
(* callers.  Every await of the source is a suspension point; the code     *)
(* between two awaits is one atomic step.                                  *)
(***************************************************************************)
EXTENDS Integers, Sequences, FiniteSets, TLC

\* ------------------------------------------------------------------ bounds
NumCallers == 2
MaxDerivations == 3
MaxEnvelopes == 1
MaxTags == 2
MaxVersions == 2
MaxBundle == 2
MaxEdges == 2

\* ------------------------------------------------------------- input sets
None == "none"
Addresses == {"addrA", "addrB"}
Passwords == {"pw1", "pw2"}
NewContents == {"other value"}
Contents == {"", "secret value"}
Callers == 1..NumCallers

\* An absent (undefined) or empty password argument
NoPassword == ""

\* Tag lists of a prompt
TagLists == {<<"work">>, <<"work", "Public">>}

\* The tags a list is made of, and every list of at most MaxTags of them
TagAlphabet == {"public", "Public", "PUBLIC", "PuBLiC", "publicize", "work"}
TagInputs == UNION {[1..n -> TagAlphabet] : n \in 0..MaxTags}

\* typeof x, for the values prepareContentForDisplay is handed
String(v) == [type |-> "string", value |-> v]
Object(v) == [type |-> "object", value |-> v]

\* ------------------------------------------------------ program constants
PROTOCOL_VERSION == "Pocket-Prompt-v3.5"
PBKDF2Iterations == 250000
SafetyLimit == 10000
IvLength == 12

VARIABLES
  sessionMasterKey,      \* crypto.ts:28  CryptoKey | null
  currentWalletAddress,  \* crypto.ts:29
  currentPasswordHash,   \* crypto.ts:30
  pendingKeyDerivation,  \* crypto.ts:31  0 (null) or the index of a derivation
  identity,              \* what the identity provider resolves to (address or None)
  derivations,           \* every derivation promise created so far, in order
  calls,                 \* the position and locals of each caller
  encrypted,             \* log of the envelopes returned by encryptContent
  staleCache             \* history: the cached key's derivation was running at a clear

vars == <<sessionMasterKey, currentWalletAddress, currentPasswordHash,
          pendingKeyDerivation, identity, derivations, calls, encrypted,
          staleCache>>

session == <<sessionMasterKey, currentWalletAddress, currentPasswordHash,
             pendingKeyDerivation>>

\* --------------------------------------------------------------- encoding
\* toLowerCase of the protocol version string (crypto.ts:156)
ToLowerCase(s) ==
  IF s = "Pocket-Prompt-v3.5" THEN "pocket-prompt-v3.5"
  ELSE IF s \in {"Public", "PUBLIC", "PuBLiC"} THEN "public"
  ELSE IF s = "Publicize" THEN "publicize"
  ELSE s

\* btoa over the bytes: a base64 string is a different value from its bytes
arrayBufferToBase64(bytes) == [base64 |-> bytes]

\* atob: the bytes a base64 string stands for
base64ToArrayBuffer(s) == s.base64

\* Whether atob accepts the string (it throws on anything else)
IsBase64(s) == "base64" \in DOMAIN s

\* A string that is not base64
NotBase64 == [text |-> "%%%"]

\* A hash that does not depend on the password
ConstantHash(password) == arrayBufferToBase64(<<"SHA-256", "">>)

\* SHA-256 of the UTF-8 password, base64 encoded (collision free on the inputs)
hashPassword(password) == arrayBufferToBase64(<<"SHA-256", password>>)

\* ------------------------------------------------------------- primitives
Failure == [ok |-> FALSE]

\* null in the slot of a CryptoKey, and in the slot of a password hash
NoKey == [bits |-> [material |-> <<>>, salt |-> "", iterations |-> 0], deriv |-> 0]
NoHash == [base64 |-> <<>>]

\* PBKDF2 over `${address}:${password}` with the protocol salt: the 256 key bits
DeriveKeyBits(address, password) ==
  [material   |-> <<address, ":", password>>,
   salt       |-> ToLowerCase(PROTOCOL_VERSION),
   iterations |-> PBKDF2Iterations]

\* AES-GCM: the ciphertext is the plaintext under the key stream of (key, iv),
\* followed by a tag over all three
AesGcmEncrypt(key, iv, plaintext) ==
  [key |-> key, iv |-> iv, plaintext |-> plaintext,
   tag |-> <<key, iv, plaintext>>]

\* The key stream alone (counter mode): no tag is verified
AesCtrDecrypt(key, iv, ciphertext) ==
  IF ciphertext.key = key /\ ciphertext.iv = iv
  THEN [ok |-> TRUE, plaintext |-> ciphertext.plaintext]
  ELSE Failure

\* crypto.subtle.decrypt with AES-GCM (crypto.ts:278-285, 303-310): rejects
\* unless key and iv are those of the encryption and the tag verifies
AesGcmDecrypt(key, iv, ciphertext) ==
  IF /\ ciphertext.key = key
     /\ ciphertext.iv = iv
     /\ ciphertext.tag = <<ciphertext.key, ciphertext.iv, ciphertext.plaintext>>
  THEN [ok |-> TRUE, plaintext |-> ciphertext.plaintext]
  ELSE Failure

\* The CryptoKey object derivation d resolves to: its bits, and which
\* derivation made it (the identity of the object)
MasterKeyOf(d) ==
  [bits  |-> DeriveKeyBits(derivations[d].address, derivations[d].password),
   deriv |-> d]

\* ------------------------------------------------------- envelope cipher
\* crypto.getRandomValues(new Uint8Array(length)): a block of `length` bytes
\* of the random draw called `name`
RandomValues(length, name) == [length |-> length, random |-> name]

\* Bytes are a sequence of blocks: a block of random bytes, or a ciphertext.
\* Whether the first 12 bytes are one block
StartsWithIv(bytes) ==
  /\ bytes # <<>>
  /\ "length" \in DOMAIN bytes[1]
  /\ bytes[1].length = 12

\* bytes.slice(0, 12): the block in front if it is 12 bytes long, else the 12
\* bytes (or fewer) cut from whatever is there
SliceIv(bytes) ==
  IF StartsWithIv(bytes) THEN bytes[1]
  ELSE IF bytes # <<>> /\ "length" \in DOMAIN bytes[1]
  THEN [bytes[1] EXCEPT !.random = <<"cut", @>>]
  ELSE RandomValues(IF bytes = <<>> THEN 0 ELSE 12, <<"cut">>)

\* bytes.slice(12): the blocks behind a 12-byte block in front, else nothing
\* that is a whole ciphertext
SliceAfterIv(bytes) ==
  IF StartsWithIv(bytes) THEN Tail(bytes) ELSE <<>>

\* An encryptContent that stores the wrapped key without its IV
EncryptWithoutWrapIv(content, masterBits, n) ==
  LET contentKey == <<"contentKey", n>>
      contentIv  == RandomValues(IvLength, <<"contentIv", n>>)
      keyIv      == RandomValues(IvLength, <<"keyIv", n>>)
  IN [encryptedContent |-> arrayBufferToBase64(AesGcmEncrypt(contentKey, contentIv, content)),
      encryptedKey     |-> arrayBufferToBase64(
                             <<AesGcmEncrypt(masterBits, keyIv, contentKey)>>),
      iv               |-> arrayBufferToBase64(contentIv),
      isEncrypted      |-> TRUE]

\* An encryptContent that takes the content key from the session
EncryptWithSessionKey(content, masterBits, n) ==
  LET contentKey == <<"contentKey", 0>>
      contentIv  == RandomValues(IvLength, <<"contentIv", n>>)
      keyIv      == RandomValues(IvLength, <<"keyIv", n>>)
      combinedKeyData == <<keyIv, AesGcmEncrypt(masterBits, keyIv, contentKey)>>
  IN [encryptedContent |-> arrayBufferToBase64(AesGcmEncrypt(contentKey, contentIv, content)),
      encryptedKey     |-> arrayBufferToBase64(combinedKeyData),
      iv               |-> arrayBufferToBase64(contentIv),
      isEncrypted      |-> TRUE]

\* encryptContent lines 213-256, given the master key and the randomness drawn
\* (n names the random content key and the two random IVs of this call); the
\* wrapped key is the block behind the IV it was wrapped with
EncryptWith(content, masterBits, n) ==
  LET contentKey == <<"contentKey", n>>
      contentIv  == RandomValues(IvLength, <<"contentIv", n>>)
      keyIv      == RandomValues(IvLength, <<"keyIv", n>>)
      combinedKeyData == <<keyIv, AesGcmEncrypt(masterBits, keyIv, contentKey)>>
  IN [encryptedContent |-> arrayBufferToBase64(AesGcmEncrypt(contentKey, contentIv, content)),
      encryptedKey     |-> arrayBufferToBase64(combinedKeyData),
      iv               |-> arrayBufferToBase64(contentIv),
      isEncrypted      |-> TRUE]

\* The ciphertext left of a field that is too short to hold one: AES-GCM
\* accepts it under no key
EmptyCiphertext == [key |-> NoKey.bits, iv |-> <<>>, plaintext |-> "", tag |-> <<>>]

\* The ciphertext that the bytes behind the wrap IV are
WrappedBlock(encryptedKeyData) ==
  IF encryptedKeyData = <<>> THEN EmptyCiphertext ELSE encryptedKeyData[1]

\* decryptContent lines 272-314, given the master key: every throw on the way
\* (atob at 273, 300, 301, the AES-GCM decrypts at 278 and 303) ends the body
DecryptWith(encryptedData, masterBits) ==
  IF ~IsBase64(encryptedData.encryptedKey)
  THEN Failure
  ELSE LET combinedKeyData  == base64ToArrayBuffer(encryptedData.encryptedKey)
           keyIv            == SliceIv(combinedKeyData)
           encryptedKeyData == SliceAfterIv(combinedKeyData)
           contentKey       == AesGcmDecrypt(masterBits, keyIv,
                                             WrappedBlock(encryptedKeyData))
       IN IF ~contentKey.ok
          THEN Failure
          ELSE IF ~IsBase64(encryptedData.encryptedContent)
                    \/ ~IsBase64(encryptedData.iv)
          THEN Failure
          ELSE AesGcmDecrypt(contentKey.plaintext,
                             base64ToArrayBuffer(encryptedData.iv),
                             base64ToArrayBuffer(encryptedData.encryptedContent))

\* An envelope written in an earlier session under (addrA, pw1)
EarlierEnvelope == EncryptWith("secret value", DeriveKeyBits("addrA", "pw1"), 0)

\* Envelopes that are not what encryptContent wrote: encryptedKey that is not
\* base64, encryptedKey with nothing beyond the 12-byte wrap IV,
\* encryptedContent that is not base64, an iv that is not 12 bytes
BadKeyEnvelope == [EarlierEnvelope EXCEPT !.encryptedKey = NotBase64]

ShortKeyEnvelope ==
  [EarlierEnvelope EXCEPT !.encryptedKey =
     arrayBufferToBase64(<<RandomValues(IvLength, <<"keyIv", 0>>)>>)]

BadContentEnvelope == [EarlierEnvelope EXCEPT !.encryptedContent = NotBase64]

ShortIvEnvelope ==
  [EarlierEnvelope EXCEPT !.iv =
     arrayBufferToBase64(RandomValues(IvLength - 1, <<"contentIv", 0>>))]

MalformedEnvelopes ==
  {BadKeyEnvelope, ShortKeyEnvelope, BadContentEnvelope, ShortIvEnvelope}

\* Envelopes that differ from E in the decoded bytes of one field: a flipped
\* bit in the body or in the tag of encryptedContent, in the wrap IV, in the
\* body or in the tag of the wrapped content key
TamperContent(E) ==
  LET ciphertext == base64ToArrayBuffer(E.encryptedContent)
  IN [E EXCEPT !.encryptedContent =
        arrayBufferToBase64([ciphertext EXCEPT !.plaintext = "tampered value"])]

TamperContentTag(E) ==
  LET ciphertext == base64ToArrayBuffer(E.encryptedContent)
  IN [E EXCEPT !.encryptedContent =
        arrayBufferToBase64([ciphertext EXCEPT !.tag = Append(@, "flipped")])]

TamperWrapIv(E) ==
  LET combinedKeyData == base64ToArrayBuffer(E.encryptedKey)
  IN [E EXCEPT !.encryptedKey =
        arrayBufferToBase64([combinedKeyData EXCEPT ![1].random = <<"keyIv", -1>>])]

TamperWrappedKey(E) ==
  LET combinedKeyData == base64ToArrayBuffer(E.encryptedKey)
  IN [E EXCEPT !.encryptedKey =
        arrayBufferToBase64(
          [combinedKeyData EXCEPT ![2].plaintext = <<"contentKey", -1>>])]

TamperWrappedTag(E) ==
  LET combinedKeyData == base64ToArrayBuffer(E.encryptedKey)
  IN [E EXCEPT !.encryptedKey =
        arrayBufferToBase64(
          [combinedKeyData EXCEPT ![2].tag = Append(@, "flipped")])]

Tampered(E) ==
  {TamperContent(E), TamperContentTag(E), TamperWrapIv(E),
   TamperWrappedKey(E), TamperWrappedTag(E)}

EarlierEncrypted ==
  [envelope |-> EarlierEnvelope, content |-> "secret value",
   password |-> "pw1", address |-> "addrA", session |-> "earlier"]

\* ------------------------------------------------------------ the callers
IdleCall ==
  [pc |-> "idle", op |-> None, password |-> None, content |-> None,
   envelope |-> None, address |-> None, awaiting |-> 0, via |-> None,
   masterKey |-> NoKey, sinceClear |-> TRUE, staleKey |-> FALSE,
   result |-> None, entry |-> None, tags |-> <<>>, lookupError |-> FALSE,
   laterSession |-> FALSE, prompts |-> <<>>,
   allEdges |-> <<>>, hasNextPage |-> FALSE, cursor |-> <<>>, requests |-> 0,
   upload |-> [sent |-> FALSE, data |-> <<>>, tags |-> <<>>],
   uploadResult |-> [settled |-> FALSE, id |-> "", success |-> FALSE, error |-> ""]]

Ok(value) == [ok |-> TRUE, value |-> value]

\* Catch blocks that all rethrow, validatePassword's included
ErrRethrows(op, message) ==
  [ok |-> FALSE,
   value |-> <<IF op = "encrypt" THEN "Failed to encrypt content"
               ELSE "Failed to decrypt content", message>>]

\* Catch blocks that all swallow the error
ErrSwallows(op, message) == [ok |-> TRUE, value |-> FALSE]

\* The catch blocks: encryptContent and decryptContent rethrow with their own
\* prefix (crypto.ts:257-260, 315-318), validatePassword returns false (332-334)
Err(op, message) ==
  IF op = "validate"
  THEN [ok |-> TRUE, value |-> FALSE]
  ELSE [ok |-> FALSE,
        value |-> <<IF op = "encrypt" THEN "Failed to encrypt content"
                    ELSE "Failed to decrypt content", message>>]

\* A call that ended before getOrCreateMasterKey returned a key
Failed(call, message) ==
  [call EXCEPT !.pc = "done", !.awaiting = 0, !.via = None,
               !.sinceClear = TRUE, !.result = Err(call.op, message)]

\* What the call returns once getOrCreateMasterKey has returned `key`; n names
\* the randomness an encryptContent call draws (crypto.ts:213-256, 272-334)
ResultWith(call, key, n) ==
  IF call.op = "encrypt"
  THEN Ok(EncryptWith(call.content, key.bits, n))
  ELSE LET plain == DecryptWith(call.envelope, key.bits)
       IN IF ~plain.ok THEN Err(call.op, "OperationError")
          ELSE IF call.op = "validate" THEN Ok(TRUE)
          ELSE Ok(plain.plaintext)

\* A decryptContent that marks the object it was given as decrypted
ReturnedInPlace(call, key, via, stale, n) ==
  [call EXCEPT !.pc = "done", !.awaiting = 0, !.via = via, !.masterKey = key,
               !.sinceClear = TRUE, !.staleKey = (call.sinceClear /\ stale),
               !.result = ResultWith(call, key, n),
               !.envelope = IF call.op = "encrypt" THEN call.envelope
                            ELSE [call.envelope EXCEPT !.isEncrypted = FALSE]]

\* getOrCreateMasterKey returned `key` to the call; the rest of encryptContent
\* or decryptContent works on the call's locals only and runs to its end.
\* staleKey (history): the call was made after a clear that the derivation of
\* `key` was already running at
Returned(call, key, via, stale, n) ==
  [call EXCEPT !.pc = "done", !.awaiting = 0, !.via = via, !.masterKey = key,
               !.sinceClear = TRUE, !.staleKey = (call.sinceClear /\ stale),
               !.result = ResultWith(call, key, n)]

InFlight(d) == derivations[d].stage \in {"importKey", "deriveKey"}

\* The encryptions of `content` so far, returned or in progress
EncryptionsOf(content) ==
  Cardinality({e \in encrypted : e.content = content})
    + Cardinality({c \in Callers : /\ calls[c].op = "encrypt"
                                   /\ calls[c].pc # "done"
                                   /\ calls[c].content = content})

\* The log entry of an encryptContent call that returned
Logged(call) ==
  [envelope |-> call.result.value, content |-> call.content,
   password |-> call.password, address |-> call.address, session |-> "current"]

\* The calls that returned an envelope in this step join the log
LogOf(before, after) ==
  {Logged(after[c]) : c \in {x \in Callers :
       /\ before[x].pc # "done" /\ after[x].pc = "done"
       /\ after[x].op = "encrypt" /\ after[x].result.ok}}

\* The envelopes encryptContent returned, with the one of the earlier session
AllEncrypted == encrypted \cup {EarlierEncrypted}

\* History: the envelope was written in a session that has ended since
FromEarlierSession(envelope) ==
  \E e \in AllEncrypted : e.envelope = envelope /\ e.session = "earlier"

Init ==
  /\ sessionMasterKey = NoKey
  /\ currentWalletAddress = None
  /\ currentPasswordHash = NoHash
  /\ pendingKeyDerivation = 0
  /\ identity = None
  /\ derivations = <<>>
  /\ calls = [c \in Callers |-> IdleCall]
  /\ encrypted = {}
  /\ staleCache = FALSE

\* ------------------------------------------------------ identity provider
setWallet(address) ==
  /\ identity' = address
  /\ UNCHANGED <<sessionMasterKey, currentWalletAddress, currentPasswordHash,
                 pendingKeyDerivation, derivations, calls, encrypted, staleCache>>

disconnect ==
  /\ identity # None
  /\ identity' = None
  /\ UNCHANGED <<sessionMasterKey, currentWalletAddress, currentPasswordHash,
                 pendingKeyDerivation, derivations, calls, encrypted, staleCache>>

\* ------------------------------------------------------------------ calls
\* encryptContent(content, password) is entered (crypto.ts:208-211)
CallEncrypt(c, content, password) ==
  /\ calls[c].pc \in {"idle", "done"}
  /\ EncryptionsOf(content) < MaxEnvelopes
  /\ calls' = [calls EXCEPT ![c] =
       [IdleCall EXCEPT !.pc = "getAddress", !.op = "encrypt",
                        !.password = password, !.content = content]]
  /\ UNCHANGED <<sessionMasterKey, currentWalletAddress, currentPasswordHash,
                 pendingKeyDerivation, identity, derivations, encrypted, staleCache>>

\* decryptContent / validatePassword is entered (crypto.ts:267-270, 325-330)
CallDecrypt(c, op, envelope, password) ==
  /\ calls[c].pc \in {"idle", "done"}
  /\ op \in {"decrypt", "validate"}
  /\ calls' = [calls EXCEPT ![c] =
       [IdleCall EXCEPT !.pc = "getAddress", !.op = op,
                        !.password = password, !.envelope = envelope,
                        !.laterSession = FromEarlierSession(envelope)]]
  /\ UNCHANGED <<sessionMasterKey, currentWalletAddress, currentPasswordHash,
                 pendingKeyDerivation, identity, derivations, encrypted, staleCache>>

\* A tag test that never asks for encryption
NeverEncrypt(tags) == FALSE

\* A tag test that always asks for encryption
AlwaysEncrypt(tags) == TRUE

\* A tag test that compares the spelling as it is
EncryptUnlessLowerCasePublic(tags) ==
  ~ \E i \in 1..Len(tags) : tags[i] = "public"

\* crypto.ts:342-344
shouldEncrypt(tags) ==
  ~ \E i \in 1..Len(tags) : ToLowerCase(tags[i]) = "public"

\* The empty string in a base64 field
EmptyString == arrayBufferToBase64(<<>>)

\* null
Null == [type |-> "null", value |-> ""]

\* data[field] is truthy: the field is there and holds a non-empty string
Truthy(data, field) == field \in DOMAIN data /\ data[field] # EmptyString

\* A test of the marker alone
MarkerOnly(data) ==
  /\ data.type = "object"
  /\ "isEncrypted" \in DOMAIN data.value
  /\ data.value.isEncrypted = TRUE

\* crypto.ts:36-38: null and the empty string are falsy, a string has none of
\* the properties, a missing property is undefined
isEncrypted(data) ==
  /\ data.type = "object"
  /\ "isEncrypted" \in DOMAIN data.value
  /\ data.value.isEncrypted = TRUE
  /\ Truthy(data.value, "encryptedContent")
  /\ Truthy(data.value, "encryptedKey")
  /\ Truthy(data.value, "iv")

\* crypto.ts:351-359
isPromptEncrypted(content) ==
  IF content.type = "string" THEN FALSE ELSE isEncrypted(content)

\* An object that is not an envelope
PlainObject == [EarlierEnvelope EXCEPT !.isEncrypted = FALSE]

\* The object without one of its properties
Without(data, field) == [f \in DOMAIN data \ {field} |-> data[f]]

EnvelopeFields == {"encryptedContent", "encryptedKey", "iv"}

\* The values isEncrypted and isPromptEncrypted are asked about: envelopes,
\* null, strings, objects with the marker false or missing, objects with a
\* field missing or empty, the empty object
CompleteEnvelopes ==
  {EarlierEnvelope, EncryptWith("", DeriveKeyBits("addrB", "pw2"), 1)}

IncompleteObjects ==
  {PlainObject, Without(EarlierEnvelope, "isEncrypted"), <<>>}
    \cup {Without(EarlierEnvelope, f) : f \in EnvelopeFields}
    \cup {[EarlierEnvelope EXCEPT ![f] = EmptyString] : f \in EnvelopeFields}

AnyValues ==
  {Null, String(""), String("secret value"), String("[object Object]")}
    \cup {Object(e) : e \in CompleteEnvelopes \cup IncompleteObjects}

DisplayValues ==
  {String("secret value"), Object(EarlierEnvelope), Object(PlainObject)}

\* An error thrown outside encryptContent and decryptContent
Thrown(message) == [ok |-> FALSE, value |-> <<message>>]

\* prepareContentForUpload (crypto.ts:375-387)
PrepareUpload(c, content, tags, password) ==
  LET call == [IdleCall EXCEPT !.entry = "prepareContentForUpload",
                               !.content = content, !.tags = tags,
                               !.password = password]
  IN
  /\ calls[c].pc \in {"idle", "done"}
  /\ (shouldEncrypt(tags) /\ password # NoPassword)
       => EncryptionsOf(content) < MaxEnvelopes
  /\ calls' = [calls EXCEPT ![c] =
       IF shouldEncrypt(tags)
       THEN IF password = NoPassword
            THEN [call EXCEPT !.pc = "done",
                    !.result = Thrown("Password required for encrypted content")]
            ELSE [call EXCEPT !.pc = "getAddress", !.op = "encrypt"]
       ELSE [call EXCEPT !.pc = "done", !.result = Ok(content)]]
  /\ UNCHANGED <<sessionMasterKey, currentWalletAddress, currentPasswordHash,
                 pendingKeyDerivation, identity, derivations, encrypted, staleCache>>

\* prepareContentForDisplay (crypto.ts:393-409)
PrepareDisplay(c, content, password) ==
  LET call == [IdleCall EXCEPT !.entry = "prepareContentForDisplay",
                               !.content = content, !.password = password]
  IN
  /\ calls[c].pc \in {"idle", "done"}
  /\ calls' = [calls EXCEPT ![c] =
       IF content.type = "string"
       THEN [call EXCEPT !.pc = "done", !.result = Ok(content.value)]
       ELSE IF isEncrypted(content)
       THEN IF password = NoPassword
            THEN [call EXCEPT !.pc = "done",
                    !.result = Thrown("Password required to decrypt content")]
            ELSE [call EXCEPT !.pc = "getAddress", !.op = "decrypt",
                              !.envelope = content.value,
                              !.laterSession = FromEarlierSession(content.value)]
       ELSE [call EXCEPT !.pc = "done", !.result = Ok("[object Object]")]]
  /\ UNCHANGED <<sessionMasterKey, currentWalletAddress, currentPasswordHash,
                 pendingKeyDerivation, identity, derivations, encrypted, staleCache>>

\* shouldEncrypt(tags) is called on the tags the caller holds
CallShouldEncrypt(c) ==
  /\ calls[c].pc = "idle"
  /\ calls' = [calls EXCEPT ![c] =
       [@ EXCEPT !.pc = "done", !.entry = "shouldEncrypt",
                 !.result = Ok(shouldEncrypt(calls[c].tags))]]
  /\ UNCHANGED <<sessionMasterKey, currentWalletAddress, currentPasswordHash,
                 pendingKeyDerivation, identity, derivations, encrypted, staleCache>>

\* isEncrypted(data) is called on the value the caller holds
CallIsEncrypted(c) ==
  /\ calls[c].pc = "idle"
  /\ calls' = [calls EXCEPT ![c] =
       [@ EXCEPT !.pc = "done", !.entry = "isEncrypted",
                 !.result = Ok(isEncrypted(calls[c].content))]]
  /\ UNCHANGED <<sessionMasterKey, currentWalletAddress, currentPasswordHash,
                 pendingKeyDerivation, identity, derivations, encrypted, staleCache>>

\* isPromptEncrypted(content) is called on the value the caller holds
CallIsPromptEncrypted(c) ==
  /\ calls[c].pc = "idle"
  /\ calls' = [calls EXCEPT ![c] =
       [@ EXCEPT !.pc = "done", !.entry = "isPromptEncrypted",
                 !.result = Ok(isPromptEncrypted(calls[c].content))]]
  /\ UNCHANGED <<sessionMasterKey, currentWalletAddress, currentPasswordHash,
                 pendingKeyDerivation, identity, derivations, encrypted, staleCache>>

\* ----------------------------------------------------------- upload tags
\* The names under upload.dynamicTags of arweave.config.json, as the test of
\* getDynamicTags lists them
DynamicTagConfig ==
  <<"Prompt-Id", "Title", "Description", "Created-At", "Updated-At",
    "Version", "Encrypted">>

\* The version entries of a prompt: a version number, or 0 for none
VersionNumbers == 0..3

\* The mock prompt of the tests with every version history of at most
\* MaxVersions entries, with and without a description
Prompts ==
  {[id |-> "test-id-123", title |-> "Test Prompt", description |-> d,
    createdAt |-> 1234567890, updatedAt |-> 1234567899,
    versions |-> v, isArchived |-> FALSE] :
     d \in {"Test description", ""},
     v \in UNION {[1..n -> VersionNumbers] : n \in 0..MaxVersions}}

\* Math.max(...numbers) of a non-empty list
MathMax(numbers) ==
  CHOOSE x \in {numbers[i] : i \in 1..Len(numbers)} :
    \A i \in 1..Len(numbers) : numbers[i] <= x

\* part_006:48-51
VersionOf(prompt, incrementVersion) ==
  LET currentVersion ==
        IF Len(prompt.versions) > 0
        THEN MathMax([i \in 1..Len(prompt.versions) |->
                        IF prompt.versions[i] = 0 THEN 1 ELSE prompt.versions[i]])
        ELSE 0
  IN IF incrementVersion THEN currentVersion + 1
     ELSE IF currentVersion > 1 THEN currentVersion ELSE 1

\* part_006:33-57: the tag pushed for one configured name
DynamicTag(name, prompt, isEncryptedArg, incrementVersion) ==
  [name  |-> name,
   value |-> IF name = "Prompt-Id" THEN prompt.id
             ELSE IF name = "Title" THEN prompt.title
             ELSE IF name = "Description" THEN prompt.description
             ELSE IF name = "Created-At" THEN ToString(prompt.createdAt)
             ELSE IF name = "Updated-At" THEN ToString(prompt.updatedAt)
             ELSE IF name = "Version"
             THEN ToString(VersionOf(prompt, incrementVersion))
             ELSE IF name = "Encrypted"
             THEN (IF isEncryptedArg THEN "true" ELSE "false")
             ELSE IF prompt.isArchived THEN "true" ELSE "false"]

\* The configured names the loop of part_006:32-58 pushes a tag for
HandledTagNames ==
  {"Prompt-Id", "Title", "Description", "Created-At", "Updated-At",
   "Version", "Encrypted", "Archived"}

\* part_006:28-61
getDynamicTags(prompt, isEncryptedArg, incrementVersion) ==
  LET handled == SelectSeq(DynamicTagConfig, LAMBDA name : name \in HandledTagNames)
  IN [i \in 1..Len(handled) |->
        DynamicTag(handled[i], prompt, isEncryptedArg, incrementVersion)]

\* getDynamicTags is called on the prompt the caller holds
CallGetDynamicTags(c, isEncryptedArg, incrementVersion) ==
  /\ calls[c].pc = "idle"
  /\ calls' = [calls EXCEPT ![c] =
       [@ EXCEPT !.pc = "done", !.entry = "getDynamicTags",
                 !.content = [prompt |-> calls[c].content,
                              isEncrypted |-> isEncryptedArg,
                              incrementVersion |-> incrementVersion],
                 !.result = Ok(getDynamicTags(calls[c].content, isEncryptedArg,
                                              incrementVersion))]]
  /\ UNCHANGED <<sessionMasterKey, currentWalletAddress, currentPasswordHash,
                 pendingKeyDerivation, identity, derivations, encrypted, staleCache>>

\* ------------------------------------------------------------ uploadPrompt
\* The names and values under upload.tags of arweave.config.json, as the test
\* of getStaticTags lists them
StaticTagConfig ==
  <<[name |-> "Content-Type", value |-> "application/json"],
    [name |-> "App-Name", value |-> "Pocket Prompt"],
    [name |-> "App-Version", value |-> "3.1.0"],
    [name |-> "Type", value |-> "prompt"],
    [name |-> "Protocol", value |-> "Pocket-Prompt-v3.1"],
    [name |-> "Data-Protocol", value |-> "Prompt"]>>

\* part_006:17-22
getStaticTags == StaticTagConfig

\* part_006:66-68
getArrayTags(prompt) ==
  [i \in 1..Len(prompt.tags) |-> [name |-> "Tag", value |-> prompt.tags[i]]]

\* Upload tags whose Encrypted flag is the public flag
getUploadTagsOfPublicFlag(prompt, isEncryptedArg, incrementVersion) ==
  getStaticTags \o getDynamicTags(prompt, ~isEncryptedArg, incrementVersion)
    \o getArrayTags(prompt)

\* part_006:74-80
getUploadTags(prompt, isEncryptedArg, incrementVersion) ==
  getStaticTags \o getDynamicTags(prompt, isEncryptedArg, incrementVersion)
    \o getArrayTags(prompt)

\* The mock prompt of the tests with the content and tags of the call
PromptOf(content, tags) ==
  [id |-> "test-id-123", title |-> "Test Prompt",
   description |-> "Test description", content |-> String(content),
   tags |-> tags, createdAt |-> 1234567890, updatedAt |-> 1234567899,
   versions |-> <<1, 2>>, isArchived |-> FALSE]

\* JSON.stringify(uploadData, null, 2) (client.ts:366)
Stringify(uploadData) == [json |-> uploadData]

\* The result object of the catch block (client.ts:397-404)
UploadFailed(message) ==
  [settled |-> TRUE, id |-> "", success |-> FALSE, error |-> message]

\* uploadPrompt(prompt, arweaveWallet, password) up to its await of
\* prepareContentForUpload (client.ts:343-357, crypto.ts:375-387); the throw
\* for a missing password lands in the catch block of uploadPrompt
UploadPrompt(c, content, tags, password) ==
  LET call == [IdleCall EXCEPT !.entry = "uploadPrompt",
                               !.content = content, !.tags = tags,
                               !.password = password]
  IN
  /\ \/ calls[c].pc = "idle"
     \/ calls[c].pc = "done" /\ calls[c].uploadResult.settled
  /\ (shouldEncrypt(tags) /\ password # NoPassword)
       => EncryptionsOf(content) < MaxEnvelopes
  /\ calls' = [calls EXCEPT ![c] =
       IF shouldEncrypt(tags)
       THEN IF password = NoPassword
            THEN [call EXCEPT !.pc = "done",
                    !.result = Thrown("Password required for encrypted content"),
                    !.uploadResult =
                       UploadFailed("Password required for encrypted content")]
            ELSE [call EXCEPT !.pc = "getAddress", !.op = "encrypt"]
       ELSE [call EXCEPT !.pc = "done", !.result = Ok(content)]]
  /\ UNCHANGED <<sessionMasterKey, currentWalletAddress, currentPasswordHash,
                 pendingKeyDerivation, identity, derivations, encrypted, staleCache>>

\* client.ts:359-390 and 397-404: prepareContentForUpload has settled; the
\* payload and the tags are built and turbo.upload is called, or the catch
\* block returns the failure
UploadContinue(c) ==
  LET call == calls[c]
      isPublic == ~shouldEncrypt(call.tags)
      prompt == PromptOf(call.content, call.tags)
      processedContent == IF call.op = "encrypt" THEN Object(call.result.value)
                          ELSE String(call.result.value)
      uploadData == [prompt EXCEPT !.content = processedContent]
  IN
  /\ call.entry = "uploadPrompt"
  /\ call.pc = "done"
  /\ ~call.uploadResult.settled
  /\ calls' = [calls EXCEPT ![c] =
       IF call.result.ok
       THEN [call EXCEPT !.pc = "turboUpload",
               !.upload = [sent |-> TRUE, data |-> Stringify(uploadData),
                           tags |-> getUploadTags(prompt, ~isPublic, TRUE)]]
       ELSE [call EXCEPT !.uploadResult = UploadFailed(call.result.value[1])]]
  /\ UNCHANGED <<sessionMasterKey, currentWalletAddress, currentPasswordHash,
                 pendingKeyDerivation, identity, derivations, encrypted, staleCache>>

\* client.ts:385-404: turbo.upload settles
TurboUpload(c, ok) ==
  /\ calls[c].pc = "turboUpload"
  /\ calls' = [calls EXCEPT ![c] =
       [@ EXCEPT !.pc = "done",
                 !.uploadResult =
                    IF ok THEN [settled |-> TRUE, id |-> "tx", success |-> TRUE,
                                error |-> ""]
                    ELSE UploadFailed("Upload failed")]]
  /\ UNCHANGED <<sessionMasterKey, currentWalletAddress, currentPasswordHash,
                 pendingKeyDerivation, identity, derivations, encrypted, staleCache>>

\* ------------------------------------------------------ uploadPromptBundle
\* The prompts handed to uploadPromptBundle: content and tags, in bundles of
\* at most MaxBundle prompts
BundlePrompts == {[content |-> x, tags |-> t] : x \in NewContents, t \in TagLists}
Bundles == UNION {[1..n -> BundlePrompts] : n \in 0..MaxBundle}

\* prepareContentForUpload(content, tags) as the bundle loop calls it, with
\* no password argument (upload.ts:82, crypto.ts:375-387)
PrepareWithoutPassword(content, tags) ==
  IF shouldEncrypt(tags)
  THEN Thrown("Password required for encrypted content")
  ELSE Ok(String(content))

\* upload.ts:69-98: the prepared prompts of the loop
PreparedPrompts(prompts) ==
  [i \in 1..Len(prompts) |->
     [content |-> PrepareWithoutPassword(prompts[i].content, prompts[i].tags).value,
      tags |-> prompts[i].tags]]

\* upload.ts:84-95: the counters of the loop
PublicCount(prompts) ==
  Cardinality({i \in 1..Len(prompts) : ~shouldEncrypt(prompts[i].tags)})
EncryptedCount(prompts) == Len(prompts) - PublicCount(prompts)

\* upload.ts:97, 110: the unique tags of the prompts (a set stands for the
\* sorted array)
AllTagsOf(prompts) ==
  UNION {{prompts[i].tags[j] : j \in 1..Len(prompts[i].tags)} : i \in 1..Len(prompts)}

\* upload.ts:101-112
BundleOf(prompts) ==
  [id |-> "bundle-id", version |-> 1, prompts |-> PreparedPrompts(prompts),
   metadata |-> [count |-> Len(prompts), encrypted |-> EncryptedCount(prompts),
                 public |-> PublicCount(prompts), tags |-> AllTagsOf(prompts)]]

\* upload.ts:125-138 (the Tag entries are left out)
BundleTags(prompts) ==
  <<[name |-> "Content-Type", value |-> "application/json"],
    [name |-> "App-Name", value |-> "Pocket Prompt"],
    [name |-> "App-Version", value |-> "3.5.0"],
    [name |-> "Protocol", value |-> "Pocket-Prompt-v3.5"],
    [name |-> "Type", value |-> "prompt-bundle"],
    [name |-> "Bundle-Id", value |-> "bundle-id"],
    [name |-> "Prompt-Count", value |-> ToString(Len(prompts))],
    [name |-> "Encrypted-Count", value |-> ToString(EncryptedCount(prompts))],
    [name |-> "Public-Count", value |-> ToString(PublicCount(prompts))]>>

\* uploadPromptBundle(prompts, arweaveWallet) up to its await of turbo.upload
\* (upload.ts:52-146); the first prompt that asks for encryption makes
\* prepareContentForUpload throw into the catch block (155-164).  The result
\* is kept as id (bundleTxId), success and error
UploadPromptBundle(c, prompts) ==
  LET call == [IdleCall EXCEPT !.entry = "uploadPromptBundle", !.prompts = prompts]
  IN
  /\ \/ calls[c].pc = "idle"
     \/ calls[c].pc = "done" /\ calls[c].uploadResult.settled
  /\ calls' = [calls EXCEPT ![c] =
       IF \E i \in 1..Len(prompts) :
            ~PrepareWithoutPassword(prompts[i].content, prompts[i].tags).ok
       THEN [call EXCEPT !.pc = "done",
               !.uploadResult =
                  UploadFailed("Password required for encrypted content")]
       ELSE [call EXCEPT !.pc = "turboUpload",
               !.upload = [sent |-> TRUE, data |-> Stringify(BundleOf(prompts)),
                           tags |-> BundleTags(prompts)]]]
  /\ UNCHANGED <<sessionMasterKey, currentWalletAddress, currentPasswordHash,
                 pendingKeyDerivation, identity, derivations, encrypted, staleCache>>

\* ------------------------------------------------------ queryAllUserPrompts
\* A transaction of a GraphQL response: its cursor, id, tags and block
\* (client.ts:63-81); a pending transaction has no block.  A cursor is a
\* tuple, the null cursor the empty one
Edge(id, tags, present, height) ==
  [cursor |-> <<"cursor", id>>,
   node |-> [id |-> id, tags |-> tags,
             block |-> [present |-> present, height |-> height]]]

\* The transactions a response page is made of: two versions of prompt p1 in
\* one block, a version of it in a later block, a pending transaction of
\* prompt p2 without a Version tag, and a transaction without a Prompt-Id
Edges ==
  {Edge("tx1", <<[name |-> "Prompt-Id", value |-> "p1"],
                 [name |-> "Version", value |-> "1"]>>, TRUE, 1),
   Edge("tx2", <<[name |-> "Prompt-Id", value |-> "p1"],
                 [name |-> "Version", value |-> "2"]>>, TRUE, 1),
   Edge("tx3", <<[name |-> "Prompt-Id", value |-> "p1"],
                 [name |-> "Version", value |-> "1"]>>, TRUE, 2),
   Edge("tx4", <<[name |-> "Prompt-Id", value |-> "p2"]>>, FALSE, 0),
   Edge("tx5", <<[name |-> "Version", value |-> "2"]>>, TRUE, 2)}

\* The pages of at most n transactions
Pages(n) == UNION {[1..k -> Edges] : k \in 0..n}

\* tags.find(t => t.name === name): the first tag of that name, if any
FindTag(tags, name) ==
  LET found == {i \in 1..Len(tags) : tags[i].name = name}
  IN IF found = {} THEN [found |-> FALSE, value |-> ""]
     ELSE [found |-> TRUE,
           value |-> tags[CHOOSE i \in found : \A j \in found : i <= j].value]

\* parseInt(value, 10) on the decimal strings the Version tag takes here
ParseInt(value) ==
  CASE value = "1" -> 1
    [] value = "2" -> 2
    [] value = "3" -> 3

\* client.ts:250-252
HeightOf(edge) ==
  IF edge.node.block.present THEN edge.node.block.height ELSE 0

VersionOfEdge(edge) ==
  LET versionTag == FindTag(edge.node.tags, "Version")
  IN IF versionTag.found THEN ParseInt(versionTag.value) ELSE 1

\* client.ts:246-265: one pass of the grouping loop; promptMap is the Map in
\* its insertion order
KeepLatest(promptMap, edge) ==
  LET promptId == FindTag(edge.node.tags, "Prompt-Id")
      entry == [promptId |-> promptId.value, txId |-> edge.node.id,
                height |-> HeightOf(edge), version |-> VersionOfEdge(edge)]
      existing == {i \in 1..Len(promptMap) : promptMap[i].promptId = promptId.value}
  IN IF ~promptId.found \/ promptId.value = "" THEN promptMap
     ELSE IF existing = {} THEN Append(promptMap, entry)
     ELSE LET i == CHOOSE x \in existing : TRUE
          IN IF \/ entry.height > promptMap[i].height
                \/ /\ entry.height = promptMap[i].height
                   /\ entry.version > promptMap[i].version
             THEN [promptMap EXCEPT ![i] = entry]
             ELSE promptMap

RECURSIVE GroupByPromptId(_, _)
\* client.ts:243-265
GroupByPromptId(promptMap, edges) ==
  IF edges = <<>> THEN promptMap
  ELSE GroupByPromptId(KeepLatest(promptMap, Head(edges)), Tail(edges))

\* client.ts:243-270: what queryAllUserPrompts returns once the loop is left
LatestTxIds(allEdges) ==
  LET promptMap == GroupByPromptId(<<>>, allEdges)
  IN [i \in 1..Len(promptMap) |-> promptMap[i].txId]

\* queryAllUserPrompts(walletAddress) is entered (client.ts:177-223): the
\* loop sends its first request.  requests is the number of requests sent so
\* far, modulo 2
QueryAllUserPrompts(c) ==
  /\ calls[c].pc \in {"idle", "done"}
  /\ calls' = [calls EXCEPT ![c] =
       [IdleCall EXCEPT !.pc = "queryLoop", !.entry = "queryAllUserPrompts",
                        !.hasNextPage = TRUE, !.requests = 1]]
  /\ UNCHANGED <<sessionMasterKey, currentWalletAddress, currentPasswordHash,
                 pendingKeyDerivation, identity, derivations, encrypted, staleCache>>

\* client.ts:183, 220-236 and 243-270: a response arrives; the loop ends with
\* the last page or at the safety limit, or sends the next request
QueryResponse(c, edges, more) ==
  LET call == calls[c]
      allEdges == call.allEdges \o edges
      cursor == IF Len(edges) > 0 THEN edges[Len(edges)].cursor ELSE <<>>
      break == Len(allEdges) > SafetyLimit
  IN
  /\ call.pc = "queryLoop"
  /\ Len(allEdges) <= MaxEdges
  /\ calls' = [calls EXCEPT ![c] =
       IF break \/ ~more
       THEN [call EXCEPT !.pc = "done", !.allEdges = allEdges,
                         !.hasNextPage = more, !.cursor = cursor,
                         !.result = Ok(LatestTxIds(allEdges))]
       ELSE [call EXCEPT !.allEdges = allEdges, !.hasNextPage = more,
                         !.cursor = cursor, !.requests = 1 - @]]
  /\ UNCHANGED <<sessionMasterKey, currentWalletAddress, currentPasswordHash,
                 pendingKeyDerivation, identity, derivations, encrypted, staleCache>>

\* client.ts:237-240: executeGraphQLQuery throws; the loop is left
QueryThrows(c) ==
  /\ calls[c].pc = "queryLoop"
  /\ calls' = [calls EXCEPT ![c] =
       [@ EXCEPT !.pc = "done", !.result = Ok(LatestTxIds(calls[c].allEdges))]]
  /\ UNCHANGED <<sessionMasterKey, currentWalletAddress, currentPasswordHash,
                 pendingKeyDerivation, identity, derivations, encrypted, staleCache>>

\* An address lookup that falls back to the owner of the cached key
GetAddressFromCache(c) ==
  /\ calls[c].pc = "getAddress"
  /\ calls' = [calls EXCEPT ![c] =
       IF identity = None /\ currentWalletAddress = None
       THEN Failed(@, "No wallet connected")
       ELSE [@ EXCEPT !.pc = "hashPassword",
                      !.address = IF identity = None THEN currentWalletAddress
                                  ELSE identity]]
  /\ UNCHANGED <<sessionMasterKey, currentWalletAddress, currentPasswordHash,
                 pendingKeyDerivation, identity, derivations, encrypted, staleCache>>

\* getOrCreateMasterKey lines 96-121: resolve the wallet address
GetAddress(c) ==
  /\ calls[c].pc = "getAddress"
  /\ calls' = [calls EXCEPT ![c] =
       IF identity = None
       THEN Failed(@, "No wallet connected")
       ELSE [@ EXCEPT !.pc = "hashPassword", !.address = identity]]
  /\ UNCHANGED <<sessionMasterKey, currentWalletAddress, currentPasswordHash,
                 pendingKeyDerivation, identity, derivations, encrypted, staleCache>>

\* getOrCreateMasterKey lines 96-121 with the two providers apart: the wallet
\* store yields the connected identity unless reaching it throws (caught at
\* 106-108); without an address from it the legacy wallet is asked, which
\* yields an address, nothing, or throws (caught at 114-116)
ResolveAddress(c, storeThrows, legacy) ==
  LET fromStore == IF storeThrows THEN None ELSE identity
      address   == IF fromStore # None THEN fromStore
                   ELSE IF legacy \in Addresses THEN legacy
                   ELSE None
      threw     == storeThrows \/ (fromStore = None /\ legacy = "throws")
  IN
  /\ calls[c].pc = "getAddress"
  /\ calls' = [calls EXCEPT ![c] =
       IF address = None
       THEN [Failed(@, "No wallet connected") EXCEPT !.lookupError = threw]
       ELSE [@ EXCEPT !.pc = "hashPassword", !.address = address,
                      !.lookupError = threw]]
  /\ UNCHANGED <<sessionMasterKey, currentWalletAddress, currentPasswordHash,
                 pendingKeyDerivation, identity, derivations, encrypted, staleCache>>

\* crypto.ts:123: the digest of hashPassword rejects; nothing catches it in
\* getOrCreateMasterKey
HashFails(c) ==
  /\ calls[c].pc = "hashPassword"
  /\ calls' = [calls EXCEPT ![c] = Failed(@, "digest failed")]
  /\ UNCHANGED <<sessionMasterKey, currentWalletAddress, currentPasswordHash,
                 pendingKeyDerivation, identity, derivations, encrypted, staleCache>>

\* A cache test that forgets the wallet address
CacheHitAnyAddress(address, passwordHash) ==
  /\ sessionMasterKey # NoKey
  /\ currentPasswordHash = passwordHash

\* A cache test that never finds the cached key
CacheNeverHit(address, passwordHash) == FALSE

\* A cache test that forgets the password fingerprint
CacheHitAnyPassword(address, passwordHash) ==
  /\ sessionMasterKey # NoKey
  /\ currentWalletAddress = address

\* crypto.ts:126
CacheHit(address, passwordHash) ==
  /\ sessionMasterKey # NoKey
  /\ currentWalletAddress = address
  /\ currentPasswordHash = passwordHash

\* A lookup that never joins the pending derivation
LookupNoJoin(address, passwordHash) ==
  IF CacheHit(address, passwordHash) THEN "cached" ELSE "derived"

\* crypto.ts:126-140: which way getOrCreateMasterKey goes once the hash is known
LookupMasterKey(address, passwordHash) ==
  IF CacheHit(address, passwordHash) THEN "cached"
  ELSE IF pendingKeyDerivation # 0 THEN "joined"
  ELSE "derived"

\* getOrCreateMasterKey lines 123-140 and 190: the password hash is known; use
\* the cache, join the pending derivation, or start one (the async function
\* runs up to its first await, importKey)
CheckCache(c) ==
  LET call == calls[c]
      passwordHash == hashPassword(call.password)
      way == LookupMasterKey(call.address, passwordHash)
      d == Len(derivations) + 1
  IN
  /\ call.pc = "hashPassword"
  /\ IF way = "cached"
     THEN /\ calls' = [calls EXCEPT ![c] =
                 Returned(@, sessionMasterKey, "cached", staleCache,
                          Cardinality(encrypted) + 1)]
          /\ UNCHANGED <<derivations, pendingKeyDerivation>>
     ELSE IF way = "joined"
     THEN /\ calls' = [calls EXCEPT ![c] =
                 [@ EXCEPT !.pc = "awaitDerivation",
                           !.awaiting = pendingKeyDerivation, !.via = "joined"]]
          /\ UNCHANGED <<derivations, pendingKeyDerivation>>
     ELSE /\ Len(derivations) < MaxDerivations
          /\ derivations' = Append(derivations,
                 [address |-> call.address, password |-> call.password,
                  passwordHash |-> passwordHash, stage |-> "importKey",
                  cleared |-> FALSE])
          /\ pendingKeyDerivation' = d
          /\ calls' = [calls EXCEPT ![c] =
                 [@ EXCEPT !.pc = "awaitDerivation", !.awaiting = d,
                           !.via = "derived"]]
  /\ encrypted' = encrypted \cup LogOf(calls, calls')
  /\ UNCHANGED <<sessionMasterKey, currentWalletAddress, currentPasswordHash,
                 identity, staleCache>>

\* A settled promise: nothing refers to it any more, its outcome is history
SettledDerivation(outcome) ==
  [address |-> None, password |-> None, passwordHash |-> NoHash,
   stage |-> outcome, cleared |-> FALSE]

\* A finally block that leaves the pending handle as it is
FinallyKeepsPending(d) == pendingKeyDerivation

\* crypto.ts:184-187: the finally block of derivation d
FinallyPending(d) == 0

Awaiting(d) ==
  {c \in Callers : calls[c].pc = "awaitDerivation" /\ calls[c].awaiting = d}

\* Awaiters of which only the starter sees the failure; a joiner looks the
\* key up again
SettleJoinersRetry(d, fulfilled) ==
  [c \in Callers |->
     IF c \in Awaiting(d)
     THEN IF fulfilled
          THEN Returned(calls[c], MasterKeyOf(d), calls[c].via,
                        derivations[d].cleared,
                        Cardinality(encrypted)
                          + Cardinality({x \in Awaiting(d) :
                                           x <= c /\ calls[x].op = "encrypt"}))
          ELSE IF calls[c].via = "joined"
               THEN [calls[c] EXCEPT !.pc = "hashPassword", !.awaiting = 0,
                                     !.via = None]
               ELSE Failed(calls[c], "key derivation failed")
     ELSE calls[c]]

\* Awaiters that are resumed only through the pending handle: none is, once
\* the handle was dropped
SettleThroughHandle(d, fulfilled) ==
  [c \in Callers |->
     IF c \in Awaiting(d) /\ pendingKeyDerivation = d
     THEN IF fulfilled
          THEN Returned(calls[c], MasterKeyOf(d), calls[c].via,
                        derivations[d].cleared,
                        Cardinality(encrypted)
                          + Cardinality({x \in Awaiting(d) :
                                           x <= c /\ calls[x].op = "encrypt"}))
          ELSE Failed(calls[c], "key derivation failed")
     ELSE calls[c]]

\* The awaiters of derivation d resume with its outcome (crypto.ts:134, 190)
Settle(d, fulfilled) ==
  [c \in Callers |->
     IF c \in Awaiting(d)
     THEN IF fulfilled
          THEN Returned(calls[c], MasterKeyOf(d), calls[c].via,
                        derivations[d].cleared,
                        Cardinality(encrypted)
                          + Cardinality({x \in Awaiting(d) :
                                           x <= c /\ calls[x].op = "encrypt"}))
          ELSE Failed(calls[c], "key derivation failed")
     ELSE calls[c]]

\* crypto.ts:184-188: a primitive of derivation d rejected
Reject(d) ==
  /\ derivations' = [derivations EXCEPT ![d] = SettledDerivation("rejected")]
  /\ pendingKeyDerivation' = FinallyPending(d)
  /\ calls' = Settle(d, FALSE)
  /\ UNCHANGED <<sessionMasterKey, currentWalletAddress, currentPasswordHash,
                 identity, encrypted, staleCache>>

\* crypto.ts:146-152: importKey settles
ImportKey(d, ok) ==
  /\ d \in 1..Len(derivations)
  /\ derivations[d].stage = "importKey"
  /\ IF ok
     THEN /\ derivations' = [derivations EXCEPT ![d].stage = "deriveKey"]
          /\ UNCHANGED <<sessionMasterKey, currentWalletAddress, currentPasswordHash,
                         pendingKeyDerivation, identity, calls, encrypted, staleCache>>
     ELSE Reject(d)

\* crypto.ts:160-188: deriveKey settles; on success the cache is filled
DeriveKey(d, ok) ==
  /\ d \in 1..Len(derivations)
  /\ derivations[d].stage = "deriveKey"
  /\ IF ok
     THEN /\ sessionMasterKey' = MasterKeyOf(d)
          /\ currentWalletAddress' = derivations[d].address
          /\ currentPasswordHash' = derivations[d].passwordHash
          /\ pendingKeyDerivation' = FinallyPending(d)
          /\ derivations' = [derivations EXCEPT ![d] = SettledDerivation("fulfilled")]
          /\ calls' = Settle(d, TRUE)
          /\ encrypted' = encrypted \cup LogOf(calls, calls')
          /\ staleCache' = derivations[d].cleared
          /\ UNCHANGED identity
     ELSE Reject(d)

\* A clear that leaves the pending derivation in place
ClearKeepsPending ==
  /\ sessionMasterKey' = NoKey
  /\ currentWalletAddress' = None
  /\ currentPasswordHash' = NoHash
  /\ staleCache' = FALSE
  /\ UNCHANGED <<pendingKeyDerivation, identity, derivations, calls, encrypted>>

\* A clear that leaves the password fingerprint behind
ClearKeepsFingerprint ==
  /\ sessionMasterKey' = NoKey
  /\ currentWalletAddress' = None
  /\ pendingKeyDerivation' = 0
  /\ staleCache' = FALSE
  /\ UNCHANGED <<currentPasswordHash, identity, derivations, calls, encrypted>>

\* crypto.ts:196-202
clearEncryptionCache ==
  /\ sessionMasterKey' = NoKey
  /\ currentWalletAddress' = None
  /\ currentPasswordHash' = NoHash
  /\ pendingKeyDerivation' = 0
  /\ calls' = [c \in Callers |->
       IF calls[c].pc \in {"idle", "done"} THEN calls[c]
       ELSE [calls[c] EXCEPT !.sinceClear = FALSE]]
  /\ derivations' = [d \in 1..Len(derivations) |->
       IF InFlight(d) THEN [derivations[d] EXCEPT !.cleared = TRUE]
       ELSE derivations[d]]
  /\ staleCache' = FALSE
  /\ UNCHANGED <<identity, encrypted>>

\* clearEncryptionCache (crypto.ts:196-202) as the end of a session: the same
\* assignments, and the history that the envelopes returned so far are of an
\* earlier session
NewSession ==
  /\ sessionMasterKey' = NoKey
  /\ currentWalletAddress' = None
  /\ currentPasswordHash' = NoHash
  /\ pendingKeyDerivation' = 0
  /\ calls' = [c \in Callers |->
       IF calls[c].pc \in {"idle", "done"} THEN calls[c]
       ELSE [calls[c] EXCEPT !.sinceClear = FALSE]]
  /\ derivations' = [d \in 1..Len(derivations) |->
       IF InFlight(d) THEN [derivations[d] EXCEPT !.cleared = TRUE]
       ELSE derivations[d]]
  /\ staleCache' = FALSE
  /\ encrypted' = {[e EXCEPT !.session = "earlier"] : e \in encrypted}
  /\ UNCHANGED identity

\* disconnectWallet of the Arweave client (client.ts:862-875): the session is
\* cleared after the wallet's own disconnect() resolved; when it throws, or no
\* legacy wallet object exists, nothing is cleared.  `gone` says whether the
\* identity provider still resolves an address afterwards
disconnectWallet(ok, gone) ==
  /\ identity' = IF gone THEN None ELSE identity
  /\ IF ok
     THEN /\ sessionMasterKey' = NoKey
          /\ currentWalletAddress' = None
          /\ currentPasswordHash' = NoHash
          /\ pendingKeyDerivation' = 0
          /\ calls' = [c \in Callers |->
               IF calls[c].pc \in {"idle", "done"} THEN calls[c]
               ELSE [calls[c] EXCEPT !.sinceClear = FALSE]]
          /\ derivations' = [d \in 1..Len(derivations) |->
               IF InFlight(d) THEN [derivations[d] EXCEPT !.cleared = TRUE]
               ELSE derivations[d]]
          /\ staleCache' = FALSE
     ELSE UNCHANGED <<sessionMasterKey, currentWalletAddress, currentPasswordHash,
                      pendingKeyDerivation, calls, derivations, staleCache>>
  /\ UNCHANGED encrypted

\* The envelopes a caller can hand to decryptContent
KnownEnvelopes == {e.envelope : e \in encrypted} \cup {EarlierEnvelope}

\* ---------------------------------------------------------- specifications
\* Key derivation and the session cache under every interleaving: the identity
\* changes, two passwords, clears and failing primitives; the calls decrypt the
\* envelope of the earlier session
Next ==
  \/ \E a \in Addresses : setWallet(a)
  \/ disconnect
  \/ \E c \in Callers, p \in Passwords :
        CallDecrypt(c, "decrypt", EarlierEnvelope, p)
  \/ \E c \in Callers : GetAddress(c)
  \/ \E c \in Callers : CheckCache(c)
  \/ \E d \in 1..MaxDerivations, ok \in BOOLEAN : ImportKey(d, ok)
  \/ \E d \in 1..MaxDerivations, ok \in BOOLEAN : DeriveKey(d, ok)
  \/ clearEncryptionCache

Spec == Init /\ [][Next]_vars

\* The state once setWallet("addrA") has connected the identity
InitConnected ==
  /\ sessionMasterKey = NoKey
  /\ currentWalletAddress = None
  /\ currentPasswordHash = NoHash
  /\ pendingKeyDerivation = 0
  /\ identity = "addrA"
  /\ derivations = <<>>
  /\ calls = [c \in Callers |-> IdleCall]
  /\ encrypted = {}
  /\ staleCache = FALSE

\* The envelope cipher under one stable identity: encrypt, decrypt and validate
\* calls with two passwords, and clears, in every interleaving
NextEnvelope ==
  \/ \E c \in Callers, x \in NewContents, p \in Passwords : CallEncrypt(c, x, p)
  \/ \E c \in Callers, op \in {"decrypt", "validate"},
        e \in KnownEnvelopes, p \in Passwords : CallDecrypt(c, op, e, p)
  \/ \E c \in Callers : GetAddress(c)
  \/ \E c \in Callers : CheckCache(c)
  \/ \E d \in 1..MaxDerivations : ImportKey(d, TRUE)
  \/ \E d \in 1..MaxDerivations : DeriveKey(d, TRUE)
  \/ clearEncryptionCache

SpecEnvelope == InitConnected /\ [][NextEnvelope]_vars

\* Concurrent calls that all use one password, from an empty session cache
NextSingleFlight ==
  \/ \E c \in Callers, x \in NewContents : CallEncrypt(c, x, "pw1")
  \/ \E c \in Callers, e \in KnownEnvelopes : CallDecrypt(c, "decrypt", e, "pw1")
  \/ \E c \in Callers : GetAddress(c)
  \/ \E c \in Callers : CheckCache(c)
  \/ \E d \in 1..MaxDerivations : ImportKey(d, TRUE)
  \/ \E d \in 1..MaxDerivations : DeriveKey(d, TRUE)

SpecSingleFlight == InitConnected /\ [][NextSingleFlight]_vars

\* Derivations whose primitives succeed, with clears, under the scheduling of
\* the platform: a pending importKey or deriveKey promise settles, and its
\* continuation runs, whatever else the callers do
NextLive ==
  \/ \E c \in Callers, p \in Passwords :
        CallDecrypt(c, "decrypt", EarlierEnvelope, p)
  \/ \E c \in Callers : GetAddress(c)
  \/ \E c \in Callers : CheckCache(c)
  \/ \E d \in 1..MaxDerivations : ImportKey(d, TRUE)
  \/ \E d \in 1..MaxDerivations : DeriveKey(d, TRUE)
  \/ clearEncryptionCache

SpecLive ==
  /\ InitConnected
  /\ [][NextLive]_vars
  /\ \A d \in 1..MaxDerivations :
       WF_vars(ImportKey(d, TRUE)) /\ WF_vars(DeriveKey(d, TRUE))


\* Connecting and disconnecting the identity, by the wallet store and by the
\* Arweave client, around decrypt calls whose derivations succeed
NextDisconnect ==
  \/ \E a \in Addresses : setWallet(a)
  \/ disconnect
  \/ \E ok \in BOOLEAN, gone \in BOOLEAN : disconnectWallet(ok, gone)
  \/ \E c \in Callers, p \in Passwords :
        CallDecrypt(c, "decrypt", EarlierEnvelope, p)
  \/ \E c \in Callers : GetAddress(c)
  \/ \E c \in Callers : CheckCache(c)
  \/ \E d \in 1..MaxDerivations : ImportKey(d, TRUE)
  \/ \E d \in 1..MaxDerivations : DeriveKey(d, TRUE)

SpecDisconnect == Init /\ [][NextDisconnect]_vars

\* decryptContent and validatePassword on well-formed and malformed envelopes,
\* before and after an identity is connected, with primitives that may fail
NextValidate ==
  \/ setWallet("addrA")
  \/ \E c \in Callers, op \in {"decrypt", "validate"},
        e \in MalformedEnvelopes \cup {EarlierEnvelope}, p \in Passwords :
        CallDecrypt(c, op, e, p)
  \/ \E c \in Callers : GetAddress(c)
  \/ \E c \in Callers : CheckCache(c)
  \/ \E d \in 1..MaxDerivations, ok \in BOOLEAN : ImportKey(d, ok)
  \/ \E d \in 1..MaxDerivations, ok \in BOOLEAN : DeriveKey(d, ok)

SpecValidate == Init /\ [][NextValidate]_vars

\* The upload and display entry points, with and without a password, on
\* tags that do and do not ask for encryption and on strings, envelopes and
\* other objects
NextPrepare ==
  \/ \E c \in Callers, x \in NewContents, t \in TagLists,
        p \in {"pw1", NoPassword} : PrepareUpload(c, x, t, p)
  \/ \E c \in Callers, v \in DisplayValues, p \in {"pw1", NoPassword} :
        PrepareDisplay(c, v, p)
  \/ \E c \in Callers : GetAddress(c)
  \/ \E c \in Callers : CheckCache(c)
  \/ \E d \in 1..MaxDerivations : ImportKey(d, TRUE)
  \/ \E d \in 1..MaxDerivations : DeriveKey(d, TRUE)

SpecPrepare == InitConnected /\ [][NextPrepare]_vars

\* Every step that can fail failing: the two identity providers, the password
\* digest, importKey, deriveKey, the unwrap under a wrong password; calls
\* through the entry points and validatePassword
NextFailures ==
  \/ \E c \in Callers, x \in NewContents : PrepareUpload(c, x, <<"work">>, "pw1")
  \/ \E c \in Callers, p \in Passwords :
        PrepareDisplay(c, Object(EarlierEnvelope), p)
  \/ \E c \in Callers : CallDecrypt(c, "validate", EarlierEnvelope, "pw2")
  \/ \E c \in Callers, storeThrows \in BOOLEAN,
        legacy \in {None, "throws", "addrB"} :
        ResolveAddress(c, storeThrows, legacy)
  \/ \E c \in Callers : HashFails(c)
  \/ \E c \in Callers : CheckCache(c)
  \/ \E d \in 1..MaxDerivations, ok \in BOOLEAN : ImportKey(d, ok)
  \/ \E d \in 1..MaxDerivations, ok \in BOOLEAN : DeriveKey(d, ok)

SpecFailures == InitConnected /\ [][NextFailures]_vars

\* decryptContent on the envelopes encryptContent wrote and on tampered copies
\* of them, with the writer's password and with another one
NextTamper ==
  \/ \E c \in Callers, x \in NewContents : CallEncrypt(c, x, "pw1")
  \/ \E c \in Callers, e \in KnownEnvelopes, p \in Passwords :
        \/ CallDecrypt(c, "decrypt", e, p)
        \/ \E t \in Tampered(e) : CallDecrypt(c, "decrypt", t, p)
  \/ \E c \in Callers : GetAddress(c)
  \/ \E c \in Callers : CheckCache(c)
  \/ \E d \in 1..MaxDerivations : ImportKey(d, TRUE)
  \/ \E d \in 1..MaxDerivations : DeriveKey(d, TRUE)

SpecTamper == InitConnected /\ [][NextTamper]_vars

\* Sessions one after another under one identity: envelopes are written and
\* read, the session ends with a clear, and the next one reads what the
\* earlier ones wrote
NextSessions ==
  \/ \E c \in Callers, x \in NewContents : CallEncrypt(c, x, "pw1")
  \/ \E c \in Callers, e \in KnownEnvelopes, p \in Passwords :
        CallDecrypt(c, "decrypt", e, p)
  \/ \E c \in Callers : GetAddress(c)
  \/ \E c \in Callers : CheckCache(c)
  \/ \E d \in 1..MaxDerivations : ImportKey(d, TRUE)
  \/ \E d \in 1..MaxDerivations : DeriveKey(d, TRUE)
  \/ NewSession

SpecSessions == InitConnected /\ [][NextSessions]_vars

\* The upload policy on every tag list: each caller holds a list and asks
\* shouldEncrypt about it
InitPolicy ==
  /\ sessionMasterKey = NoKey
  /\ currentWalletAddress = None
  /\ currentPasswordHash = NoHash
  /\ pendingKeyDerivation = 0
  /\ identity = None
  /\ derivations = <<>>
  /\ calls \in [Callers -> {[IdleCall EXCEPT !.tags = t] : t \in TagInputs}]
  /\ encrypted = {}
  /\ staleCache = FALSE

NextPolicy == \E c \in Callers : CallShouldEncrypt(c)

SpecPolicy == InitPolicy /\ [][NextPolicy]_vars

\* The structural test on every kind of value: each caller holds an item (a
\* value and its tags) and asks isEncrypted or isPromptEncrypted about it
InitStructure ==
  /\ sessionMasterKey = NoKey
  /\ currentWalletAddress = None
  /\ currentPasswordHash = NoHash
  /\ pendingKeyDerivation = 0
  /\ identity = None
  /\ derivations = <<>>
  /\ calls \in [Callers -> {[IdleCall EXCEPT !.content = v, !.tags = t] :
                              v \in AnyValues, t \in TagLists}]
  /\ encrypted = {}
  /\ staleCache = FALSE

NextStructure ==
  \/ \E c \in Callers : CallIsEncrypted(c)
  \/ \E c \in Callers : CallIsPromptEncrypted(c)

SpecStructure == InitStructure /\ [][NextStructure]_vars

\* encryptContent on the empty and on a non-empty content, by concurrent
\* callers with either password, with primitives that may fail, and
\* decryptContent on what it returned
NextEncrypt ==
  \/ \E c \in Callers, x \in Contents, p \in Passwords : CallEncrypt(c, x, p)
  \/ \E c \in Callers, e \in KnownEnvelopes : CallDecrypt(c, "decrypt", e, "pw1")
  \/ \E c \in Callers : GetAddress(c)
  \/ \E c \in Callers : CheckCache(c)
  \/ \E d \in 1..MaxDerivations, ok \in BOOLEAN : ImportKey(d, ok)
  \/ \E d \in 1..MaxDerivations : DeriveKey(d, TRUE)

SpecEncrypt == InitConnected /\ [][NextEncrypt]_vars

\* Every entry point of the engine side by side: each caller holds an item
\* and may ask shouldEncrypt, isEncrypted or isPromptEncrypted about it, and
\* uploads and displays with and without a password go on around it
InitLazy ==
  /\ sessionMasterKey = NoKey
  /\ currentWalletAddress = None
  /\ currentPasswordHash = NoHash
  /\ pendingKeyDerivation = 0
  /\ identity = "addrA"
  /\ derivations = <<>>
  /\ calls \in [Callers -> {[IdleCall EXCEPT !.content = v, !.tags = t] :
                              v \in DisplayValues, t \in TagLists}]
  /\ encrypted = {}
  /\ staleCache = FALSE

NextLazy ==
  \/ \E c \in Callers : CallShouldEncrypt(c)
  \/ \E c \in Callers : CallIsEncrypted(c)
  \/ \E c \in Callers : CallIsPromptEncrypted(c)
  \/ \E c \in Callers, x \in NewContents, t \in TagLists,
        p \in {"pw1", NoPassword} : PrepareUpload(c, x, t, p)
  \/ \E c \in Callers, v \in DisplayValues, p \in {"pw1", NoPassword} :
        PrepareDisplay(c, v, p)
  \/ \E c \in Callers : GetAddress(c)
  \/ \E c \in Callers : CheckCache(c)
  \/ \E d \in 1..MaxDerivations : ImportKey(d, TRUE)
  \/ \E d \in 1..MaxDerivations : DeriveKey(d, TRUE)

SpecLazy == InitLazy /\ [][NextLazy]_vars

\* The upload tags of every prompt: each caller holds a prompt and asks
\* getDynamicTags for its tags, with the default incrementVersion (true) or
\* with false
InitUploadTags ==
  /\ sessionMasterKey = NoKey
  /\ currentWalletAddress = None
  /\ currentPasswordHash = NoHash
  /\ pendingKeyDerivation = 0
  /\ identity = None
  /\ derivations = <<>>
  /\ calls \in [Callers -> {[IdleCall EXCEPT !.content = p] : p \in Prompts}]
  /\ encrypted = {}
  /\ staleCache = FALSE

NextUploadTags ==
  \E c \in Callers, isEncryptedArg \in BOOLEAN, incrementVersion \in BOOLEAN :
    CallGetDynamicTags(c, isEncryptedArg, incrementVersion)

SpecUploadTags == InitUploadTags /\ [][NextUploadTags]_vars

\* A call may be entered while the derivations started so far and the calls
\* that have not passed the cache check yet stay within MaxDerivations, so
\* that no call is held up by the bound on the derivations
MayEnter ==
  Len(derivations)
    + Cardinality({c \in Callers : calls[c].pc \in {"getAddress", "hashPassword"}})
    < MaxDerivations

\* encryptContent, decryptContent and validatePassword calls with two
\* passwords and clears, where every promise settles: the identity lookup
\* and the password digest resolve, importKey and deriveKey resolve or reject
NextSettles ==
  \/ \E c \in Callers, x \in NewContents, p \in Passwords :
        MayEnter /\ CallEncrypt(c, x, p)
  \/ \E c \in Callers, op \in {"decrypt", "validate"}, p \in Passwords :
        MayEnter /\ CallDecrypt(c, op, EarlierEnvelope, p)
  \/ \E c \in Callers : GetAddress(c)
  \/ \E c \in Callers : CheckCache(c)
  \/ \E d \in 1..MaxDerivations, ok \in BOOLEAN : ImportKey(d, ok)
  \/ \E d \in 1..MaxDerivations, ok \in BOOLEAN : DeriveKey(d, ok)
  \/ clearEncryptionCache

SpecSettles ==
  /\ InitConnected
  /\ [][NextSettles]_vars
  /\ \A c \in Callers : WF_vars(GetAddress(c)) /\ WF_vars(CheckCache(c))
  /\ \A d \in 1..MaxDerivations :
       /\ WF_vars(\E ok \in BOOLEAN : ImportKey(d, ok))
       /\ WF_vars(\E ok \in BOOLEAN : DeriveKey(d, ok))

\* uploadPrompt on prompts with and without a public tag, with and without a
\* password, with derivations and uploads that may fail
NextUpload ==
  \/ \E c \in Callers, x \in Contents, t \in TagLists, p \in {"pw1", NoPassword} :
        UploadPrompt(c, x, t, p)
  \/ \E c \in Callers : UploadContinue(c)
  \/ \E c \in Callers, ok \in BOOLEAN : TurboUpload(c, ok)
  \/ \E c \in Callers : GetAddress(c)
  \/ \E c \in Callers : CheckCache(c)
  \/ \E d \in 1..MaxDerivations, ok \in BOOLEAN : ImportKey(d, ok)
  \/ \E d \in 1..MaxDerivations, ok \in BOOLEAN : DeriveKey(d, ok)

SpecUpload == InitConnected /\ [][NextUpload]_vars

\* Bundle uploads in a session in which decryptContent calls fill the cache
NextBundle ==
  \/ \E c \in Callers : CallDecrypt(c, "decrypt", EarlierEnvelope, "pw1")
  \/ \E c \in Callers, b \in Bundles : UploadPromptBundle(c, b)
  \/ \E c \in Callers, ok \in BOOLEAN : TurboUpload(c, ok)
  \/ \E c \in Callers : GetAddress(c)
  \/ \E c \in Callers : CheckCache(c)
  \/ \E d \in 1..MaxDerivations : ImportKey(d, TRUE)
  \/ \E d \in 1..MaxDerivations : DeriveKey(d, TRUE)

SpecBundle == InitConnected /\ [][NextBundle]_vars

\* queryAllUserPrompts against a gateway that answers every request, with any
\* page and any hasNextPage, or with an error
NextQuery ==
  \/ \E c \in Callers : QueryAllUserPrompts(c)
  \/ \E c \in Callers, edges \in Pages(MaxEdges), more \in BOOLEAN :
        QueryResponse(c, edges, more)
  \/ \E c \in Callers : QueryThrows(c)

SpecQuery ==
  /\ InitConnected
  /\ [][NextQuery]_vars
  /\ \A c \in Callers :
       WF_vars(\/ \E edges \in Pages(MaxEdges), more \in BOOLEAN :
                    QueryResponse(c, edges, more)
               \/ QueryThrows(c))

\* ------------------------------------------------------------------ claims
Started == Len(derivations)

InFlightSet == {d \in 1..Len(derivations) : InFlight(d)}

GotKeyCalls == {c \in Callers : calls[c].pc = "done" /\ calls[c].masterKey # NoKey}

\* C1: under SpecSingleFlight (empty cache at the start, one identity, every
\* call with the same password, primitives that succeed) at most one
\* derivation is ever started, exactly one once a call has passed the cache
\* check, and every call that got a key got the key object of derivation 1,
\* the key of (identity, password).
C1_SingleFlight ==
  /\ Started <= 1
  /\ \A c \in Callers :
       calls[c].pc \in {"awaitDerivation", "done"} => Started = 1
  /\ \A c \in Callers :
       calls[c].pc = "done" =>
         /\ calls[c].result.ok
         /\ calls[c].masterKey = [bits |-> DeriveKeyBits("addrA", "pw1"), deriv |-> 1]

\* Every caller holds the key; one started the derivation, another joined it
C1_Witness ==
  /\ \A c \in Callers : calls[c].pc = "done" /\ calls[c].masterKey.deriv = 1
  /\ \E c \in Callers : calls[c].via = "derived"
  /\ \E c \in Callers : calls[c].via = "joined"

\* C2: every key that getOrCreateMasterKey(password) returns to a caller whose
\* resolved identity is A is the key derived from (A, password).
C2_ReturnedKeyIsOwn ==
  \A c \in GotKeyCalls :
    calls[c].masterKey.bits = DeriveKeyBits(calls[c].address, calls[c].password)

\* C3: a decryptContent call with password P2 on an envelope that
\* encryptContent(C, P1) returned under the same identity, P1 # P2, fails,
\* and validatePassword on it returns false.
C3_WrongPasswordRejected ==
  \A c \in Callers : \A e \in AllEncrypted :
    ( /\ calls[c].pc = "done"
      /\ calls[c].op \in {"decrypt", "validate"}
      /\ calls[c].envelope = e.envelope
      /\ calls[c].address = e.address
      /\ calls[c].password # e.password )
    => IF calls[c].op = "validate"
       THEN calls[c].result.value = FALSE
       ELSE ~calls[c].result.ok

\* C4: a decryptContent call with password P on an envelope that
\* encryptContent(C, P) returned under the same identity returns exactly C.
C4_RoundTrip ==
  \A c \in Callers : \A e \in encrypted :
    ( /\ calls[c].pc = "done"
      /\ calls[c].op = "decrypt"
      /\ calls[c].envelope = e.envelope
      /\ calls[c].address = e.address
      /\ calls[c].password = e.password )
    => calls[c].result.ok /\ calls[c].result.value = e.content

\* C5: at most one key derivation is in flight.
C5_AtMostOneInFlight == Cardinality(InFlightSet) <= 1

\* Derivation d is fulfilled (rejected) in this step
Fulfils(d) == InFlight(d) /\ derivations'[d].stage = "fulfilled"
Rejects(d) == InFlight(d) /\ derivations'[d].stage = "rejected"

\* The envelope was wrapped with the master key of its call's own
\* (identity, password)
WrappedUnderOwnKey(e) ==
  base64ToArrayBuffer(e.envelope.encryptedKey)[2].key
    = DeriveKeyBits(e.address, e.password)

\* C6: when a derivation for (A, P1) completes, the cache holds its key and
\* the fingerprint of P1, and a call with (A, P2), P2 # P1, arriving in that
\* state neither takes the cached key nor joins anything: it starts a new
\* derivation (whose completion in turn leaves the key and fingerprint of P2
\* in the cache).  And a decryptContent call that got its key from the cache or
\* from its own derivation, on an envelope produced under (A, P1), returns the
\* content when its password is P1 and fails when its password is not.
C6_PasswordChange ==
  /\ [][\A d \in 1..Len(derivations) : \A a \in Addresses : \A p1 \in Passwords :
          (Fulfils(d) /\ derivations[d].address = a /\ derivations[d].password = p1)
          => /\ sessionMasterKey' = [bits |-> DeriveKeyBits(a, p1), deriv |-> d]
             /\ currentWalletAddress' = a
             /\ currentPasswordHash' = hashPassword(p1)
             /\ \A p2 \in Passwords \ {p1} :
                  LookupMasterKey(a, hashPassword(p2))' = "derived"]_vars
  /\ [](\A c \in Callers : \A e \in AllEncrypted :
          ( /\ calls[c].pc = "done"
            /\ calls[c].op = "decrypt"
            /\ calls[c].via \in {"cached", "derived"}
            /\ calls[c].envelope = e.envelope
            /\ calls[c].address = e.address
            /\ WrappedUnderOwnKey(e) )
          => IF calls[c].password = e.password
             THEN calls[c].result.ok /\ calls[c].result.value = e.content
             ELSE ~calls[c].result.ok)

\* Derivation 1 was for pw1 and its caller decrypted with it; the call with
\* pw2 started derivation 2, whose key and fingerprint the cache now holds, and
\* failed to decrypt the envelope made under pw1
C6_Witness ==
  /\ sessionMasterKey = [bits |-> DeriveKeyBits("addrA", "pw2"), deriv |-> 2]
  /\ currentPasswordHash = hashPassword("pw2")
  /\ \E c \in Callers :
       /\ calls[c].pc = "done" /\ calls[c].password = "pw1"
       /\ calls[c].op = "decrypt" /\ calls[c].envelope = EarlierEnvelope
       /\ calls[c].masterKey = [bits |-> DeriveKeyBits("addrA", "pw1"), deriv |-> 1]
       /\ calls[c].result.ok /\ calls[c].result.value = "secret value"
  /\ \E c \in Callers :
       /\ calls[c].pc = "done" /\ calls[c].password = "pw2"
       /\ calls[c].op = "decrypt" /\ calls[c].envelope = EarlierEnvelope
       /\ calls[c].via = "derived" /\ calls[c].masterKey.deriv = 2
       /\ ~calls[c].result.ok

\* Caller c takes the step of CheckCache
Checks(c) == calls[c].pc = "hashPassword" /\ calls'[c].pc # "hashPassword"

\* C7: a call with resolved identity B that reaches the cache check while the
\* cache holds a key for another identity A under the same password and no
\* derivation is pending starts a new derivation for (B, password) and awaits
\* it; and a derivation that completes hands its awaiters the key of its own
\* identity and password and leaves its own identity as the cache's owner.
C7_IdentityChange ==
  [][ /\ \A c \in Callers :
           ( /\ Checks(c)
             /\ sessionMasterKey # NoKey
             /\ currentWalletAddress # calls[c].address
             /\ currentPasswordHash = hashPassword(calls[c].password)
             /\ pendingKeyDerivation = 0 )
           => /\ Len(derivations') = Len(derivations) + 1
              /\ derivations'[Len(derivations')].address = calls[c].address
              /\ derivations'[Len(derivations')].password = calls[c].password
              /\ pendingKeyDerivation' = Len(derivations')
              /\ calls'[c].pc = "awaitDerivation"
              /\ calls'[c].awaiting = Len(derivations')
      /\ \A d \in 1..Len(derivations) :
           Fulfils(d)
           => /\ currentWalletAddress' = derivations[d].address
              /\ sessionMasterKey'.bits =
                   DeriveKeyBits(derivations[d].address, derivations[d].password)
              /\ \A c \in Awaiting(d) :
                   /\ calls'[c].pc = "done"
                   /\ calls'[c].masterKey = sessionMasterKey'
                   /\ calls[c].via = "derived" =>
                        /\ calls[c].address = derivations[d].address
                        /\ calls[c].password = derivations[d].password ]_vars

\* The cache held addrA's key; the call under addrB with the same password
\* derived its own key, and the cache's owner is now addrB
C7_Witness ==
  /\ currentWalletAddress = "addrB"
  /\ sessionMasterKey = [bits |-> DeriveKeyBits("addrB", "pw1"), deriv |-> 2]
  /\ \E c \in Callers :
       /\ calls[c].pc = "done" /\ calls[c].address = "addrA"
       /\ calls[c].password = "pw1" /\ calls[c].masterKey.deriv = 1
  /\ \E c \in Callers :
       /\ calls[c].pc = "done" /\ calls[c].address = "addrB"
       /\ calls[c].password = "pw1" /\ calls[c].via = "derived"
       /\ calls[c].masterKey = sessionMasterKey

\* C8: a call made after clearEncryptionCache never gets a key whose
\* derivation was started before that clear.
C8_FreshAfterClear ==
  \A c \in Callers : calls[c].pc = "done" => ~calls[c].staleKey

\* All four session fields are none
Cleared ==
  /\ sessionMasterKey = NoKey
  /\ currentWalletAddress = None
  /\ currentPasswordHash = NoHash
  /\ pendingKeyDerivation = 0

\* C9: clearEncryptionCache can always be called (it never throws), leaves the
\* four session fields none, and called when they are none already (an empty
\* session, or right after another clear) changes none of them.
C9_ClearIdempotent ==
  /\ [](ENABLED clearEncryptionCache)
  /\ [][clearEncryptionCache =>
          /\ Cleared'
          /\ Cleared => UNCHANGED session]_vars

\* The session is empty after a clear that came while a derivation was running
C9_Witness ==
  /\ Cleared
  /\ \E d \in 1..Len(derivations) : derivations[d].cleared

\* C10: when a derivation for (A, P) fails, the pending handle is none
\* afterwards and a getOrCreateMasterKey call with (A, P) arriving in that
\* state starts a new derivation.
C10_RetryAfterFailure ==
  [][\A d \in 1..Len(derivations) : \A a \in Addresses : \A p \in Passwords :
       (Rejects(d) /\ derivations[d].address = a /\ derivations[d].password = p)
       => /\ pendingKeyDerivation' = 0
          /\ LookupMasterKey(a, hashPassword(p))' = "derived"]_vars

\* C11: when a derivation fails, the session cache is completely reset: master
\* key, owner identity, password fingerprint and pending handle are all none
\* afterwards, whatever the cache held before the failing request.
C11_FailureResetsCache ==
  [][\A d \in 1..Len(derivations) : Rejects(d) => Cleared']_vars

\* C12: the three cache fields are all none or all set, and when set the key
\* is the fully derived key of exactly the cached identity and of the password
\* whose fingerprint is cached.
C12_CacheConsistent ==
  \/ /\ sessionMasterKey = NoKey
     /\ currentWalletAddress = None
     /\ currentPasswordHash = NoHash
  \/ /\ sessionMasterKey # NoKey
     /\ currentWalletAddress \in Addresses
     /\ \E p \in Passwords :
          /\ currentPasswordHash = hashPassword(p)
          /\ sessionMasterKey.bits = DeriveKeyBits(currentWalletAddress, p)

\* The cache holds addrB's key under pw2 while the identity provider has moved
\* on to addrA and another derivation is pending
C12_Witness ==
  /\ sessionMasterKey.bits = DeriveKeyBits("addrB", "pw2")
  /\ currentWalletAddress = "addrB"
  /\ currentPasswordHash = hashPassword("pw2")
  /\ identity = "addrA"
  /\ pendingKeyDerivation # 0

\* C13: under SpecSingleFlight (one identity, one password, no clear), once a
\* derivation has completed and filled the cache, no step starts a further
\* derivation or replaces the cached key, and every call that reaches the
\* cache check, alone or with other calls pending, returns the cached key.
C13_CacheReuse ==
  [][sessionMasterKey # NoKey =>
       /\ Len(derivations') = Len(derivations)
       /\ sessionMasterKey' = sessionMasterKey
       /\ pendingKeyDerivation' = 0
       /\ \A c \in Callers :
            Checks(c) => /\ calls'[c].pc = "done"
                         /\ calls'[c].via = "cached"
                         /\ calls'[c].masterKey = sessionMasterKey]_vars

\* After the one derivation, an encrypt call and a decrypt call both returned
\* with the cached key
C13_Witness ==
  /\ Len(derivations) = 1
  /\ \E c \in Callers :
       calls[c].pc = "done" /\ calls[c].op = "encrypt" /\ calls[c].via = "cached"
  /\ \E c \in Callers :
       calls[c].pc = "done" /\ calls[c].op = "decrypt" /\ calls[c].via = "cached"

\* C14: under SpecLive every derivation that has been started completes,
\* also when clearEncryptionCache dropped the handle to it meanwhile; the
\* completing step stores its key, identity and fingerprint in the cache and
\* leaves the pending handle none, and a call with the same identity and
\* password arriving in that state gets the cached key without a derivation.
C14_NoCancellation ==
  /\ \A d \in 1..MaxDerivations :
       (d \in InFlightSet)
         ~> (d \in 1..Len(derivations) /\ derivations[d].stage = "fulfilled")
  /\ [][\A d \in 1..Len(derivations) : \A a \in Addresses : \A p \in Passwords :
          (Fulfils(d) /\ derivations[d].address = a /\ derivations[d].password = p)
          => /\ sessionMasterKey' = [bits |-> DeriveKeyBits(a, p), deriv |-> d]
             /\ currentWalletAddress' = a
             /\ currentPasswordHash' = hashPassword(p)
             /\ pendingKeyDerivation' = 0
             /\ LookupMasterKey(a, hashPassword(p))' = "cached"]_vars

\* A derivation that was running when the cache was cleared has completed: the
\* cache holds its key, with no derivation pending
C14_Witness ==
  /\ staleCache
  /\ sessionMasterKey # NoKey
  /\ sessionMasterKey.deriv = 1
  /\ derivations[1].stage = "fulfilled"
  /\ pendingKeyDerivation = 0

\* C15: a step that disconnects the connected identity (the wallet store's
\* disconnect, or disconnectWallet of the Arweave client whether the wallet's
\* own disconnect resolved or threw) leaves no master key, identity or
\* password fingerprint in the session cache.
C15_DisconnectDestroysSession ==
  [][( /\ identity # None
       /\ \/ disconnect
          \/ \E ok \in BOOLEAN, gone \in BOOLEAN : disconnectWallet(ok, gone) )
     => /\ sessionMasterKey' = NoKey
        /\ currentWalletAddress' = None
        /\ currentPasswordHash' = NoHash]_vars

\* What decryptContent does with the call's envelope and the key the call got
\* from getOrCreateMasterKey (none: getOrCreateMasterKey threw)
DecryptSucceeds(c) ==
  /\ calls[c].masterKey # NoKey
  /\ DecryptWith(calls[c].envelope, calls[c].masterKey.bits).ok

\* C16: every validatePassword call that ended, whatever its envelope
\* (well-formed, malformed), password, identity state and derivation outcome,
\* resolved to a boolean: true exactly when its decryptContent succeeded; and a
\* decryptContent call with the same key and envelope succeeds exactly then.
C16_ValidateNeverThrows ==
  \A c \in Callers :
    calls[c].pc = "done" =>
      /\ calls[c].op = "validate" =>
           /\ calls[c].result.ok
           /\ calls[c].result.value \in BOOLEAN
           /\ calls[c].result.value = DecryptSucceeds(c)
      /\ calls[c].op = "decrypt" => calls[c].result.ok = DecryptSucceeds(c)

\* One validatePassword call returned false on a malformed envelope after it
\* got a key, the other returned false because no identity was resolvable
C16_Witness ==
  /\ \E c \in Callers :
       /\ calls[c].pc = "done" /\ calls[c].op = "validate"
       /\ calls[c].envelope \in MalformedEnvelopes
       /\ calls[c].masterKey # NoKey
       /\ calls[c].result = Ok(FALSE)
  /\ \E c \in Callers :
       /\ calls[c].pc = "done" /\ calls[c].op = "validate"
       /\ calls[c].address = None
       /\ calls[c].result = Ok(FALSE)

\* Caller c takes a step of its call
Steps(c) == calls'[c].pc # calls[c].pc /\ calls[c].pc \notin {"idle", "done"}

\* C17: a decryptContent call on a malformed envelope fails before any
\* cryptographic step: no step of it starts a key derivation or changes the
\* session cache, and it never holds a master key.
C17_CorruptBeforeCrypto ==
  [][\A c \in Callers :
       ( /\ Steps(c)
         /\ calls[c].op = "decrypt"
         /\ calls[c].envelope \in MalformedEnvelopes )
       => /\ UNCHANGED <<derivations, session>>
          /\ calls'[c].masterKey = NoKey]_vars

\* C18: a getOrCreateMasterKey call that finds no identity fails with 'No
\* wallet connected', starts no derivation, gets no key (also when the cache
\* holds one from a previous identity) and leaves the four session fields
\* unchanged.
C18_NoIdentity ==
  [][\A c \in Callers :
       (Steps(c) /\ calls[c].pc = "getAddress" /\ identity = None)
       => /\ calls'[c].pc = "done"
          /\ calls'[c].result = Err(calls[c].op, "No wallet connected")
          /\ ~calls'[c].result.ok
          /\ calls'[c].masterKey = NoKey
          /\ UNCHANGED <<derivations, session>>]_vars

\* The cache holds the key of the identity that has disconnected since, and a
\* call made after the disconnect failed for want of an identity
C18_Witness ==
  /\ identity = None
  /\ sessionMasterKey # NoKey
  /\ \E c \in Callers :
       /\ calls[c].pc = "done" /\ calls[c].address = None
       /\ calls[c].result = Err("decrypt", "No wallet connected")

\* No tag of the list is the public tag in any letter case
NoPublicTag(tags) ==
  \A i \in 1..Len(tags) : tags[i] \notin {"public", "Public", "PUBLIC", "PuBLiC"}

\* The call is prepareContentForDisplay on the envelope
DisplaysEnvelope(call) ==
  /\ call.entry = "prepareContentForDisplay"
  /\ call.content.type = "object"
  /\ call.content.value = EarlierEnvelope

\* Both calls are prepareContentForDisplay calls, on different values
DisplaysAnother(before, after) ==
  /\ before.entry = "prepareContentForDisplay"
  /\ after.entry = "prepareContentForDisplay"
  /\ \/ before.content.type # after.content.type
     \/ /\ after.content.type = "object"
        /\ before.content.value # after.content.value

\* Caller c enters a call
Enters(c) ==
  /\ calls[c].pc \in {"idle", "done"}
  /\ \/ calls'[c].pc # calls[c].pc
     \/ calls'[c].entry # calls[c].entry
     \/ calls'[c].password # calls[c].password
     \/ calls'[c].tags # calls[c].tags
     \/ DisplaysAnother(calls[c], calls'[c])

\* C19: prepareContentForUpload with tags that require encryption and no
\* password, and prepareContentForDisplay with an envelope and no password,
\* end at once with the password-required error, before any identity lookup
\* or derivation and with the session unchanged; and neither ever succeeds
\* without having encrypted (decrypted) with a key under a password.
C19_PasswordRequired ==
  /\ [][\A c \in Callers :
          (Enters(c) /\ calls'[c].password = NoPassword) =>
            /\ ( /\ calls'[c].entry = "prepareContentForUpload"
                 /\ NoPublicTag(calls'[c].tags) )
               => /\ calls'[c].pc = "done"
                  /\ calls'[c].result = Thrown("Password required for encrypted content")
                  /\ calls'[c].address = None
                  /\ UNCHANGED <<derivations, session>>
            /\ DisplaysEnvelope(calls'[c])
               => /\ calls'[c].pc = "done"
                  /\ calls'[c].result = Thrown("Password required to decrypt content")
                  /\ calls'[c].address = None
                  /\ UNCHANGED <<derivations, session>>]_vars
  /\ [](\A c \in Callers :
          (calls[c].pc = "done" /\ calls[c].result.ok) =>
            /\ ( /\ calls[c].entry = "prepareContentForUpload"
                 /\ NoPublicTag(calls[c].tags) )
               => /\ calls[c].password # NoPassword
                  /\ calls[c].masterKey # NoKey
                  /\ isEncrypted(Object(calls[c].result.value))
            /\ DisplaysEnvelope(calls[c])
               => /\ calls[c].password # NoPassword
                  /\ DecryptSucceeds(c)
                  /\ calls[c].result.value = "secret value")

\* One caller's upload and the other's display both ended with the
\* password-required error, with nothing derived
C19_Witness ==
  /\ derivations = <<>>
  /\ \E c \in Callers :
       /\ calls[c].pc = "done" /\ calls[c].tags = <<"work">>
       /\ calls[c].entry = "prepareContentForUpload"
       /\ calls[c].result = Thrown("Password required for encrypted content")
  /\ \E c \in Callers :
       /\ calls[c].pc = "done" /\ DisplaysEnvelope(calls[c])
       /\ calls[c].result = Thrown("Password required to decrypt content")

\* The calls that ended and are not validatePassword calls
EndedCalls ==
  {c \in Callers : calls[c].pc = "done" /\ calls[c].op \in {"encrypt", "decrypt"}}

\* A call that got no key failed, and a call that got one succeeded exactly
\* when the unwrap and the content decryption did
LaterFailuresSurface ==
  \A c \in EndedCalls :
    IF calls[c].masterKey = NoKey
    THEN ~calls[c].result.ok
    ELSE calls[c].result.ok = (calls[c].op = "encrypt" \/ DecryptSucceeds(c))

C21_TamperDetected ==
  \A c \in Callers : \A e \in AllEncrypted :
    ( /\ calls[c].pc = "done"
      /\ calls[c].op = "decrypt"
      /\ calls[c].envelope \in Tampered(e.envelope) )
    => ~calls[c].result.ok

\* A caller decrypted an envelope this session wrote, another was refused a
\* copy of it with a flipped bit in the ciphertext body, both with the
\* writer's password and the writer's key
C21_Witness ==
  \E e \in encrypted : \E c1, c2 \in Callers :
    /\ calls[c1].pc = "done" /\ calls[c1].op = "decrypt"
    /\ calls[c1].envelope = e.envelope
    /\ calls[c1].password = e.password
    /\ calls[c1].result.ok
    /\ calls[c2].pc = "done" /\ calls[c2].op = "decrypt"
    /\ calls[c2].envelope = TamperContent(e.envelope)
    /\ calls[c2].password = e.password
    /\ calls[c2].masterKey.bits = DeriveKeyBits(e.address, e.password)
    /\ ~calls[c2].result.ok

\* The value a call through an entry point was handed, and the value it
\* returned: prepareContentForDisplay resolves to a string, and so does
\* prepareContentForUpload unless it encrypted
HandedValue(call) ==
  IF call.entry = "prepareContentForDisplay" THEN call.content
  ELSE String(call.content)

ReturnedValue(call) ==
  IF call.entry = "prepareContentForUpload" /\ call.op = "encrypt"
  THEN Object(call.result.value)
  ELSE String(call.result.value)

\* Plain -> Envelope: the upload of a plain value under tags without 'public'
\* and with a password returned a complete envelope
PlainToEnvelope(call, out) ==
  /\ call.entry = "prepareContentForUpload"
  /\ NoPublicTag(call.tags)
  /\ call.password # NoPassword
  /\ isEncrypted(out)

\* Envelope -> Plain: the display of an envelope with its writer's password
\* returned the plaintext it was written from
EnvelopeToPlain(call, out) ==
  /\ call.entry = "prepareContentForDisplay"
  /\ call.content.type = "object"
  /\ \E e \in AllEncrypted :
       /\ e.envelope = call.content.value
       /\ e.password = call.password
       /\ out = String(e.content)

\* What the claim allows a call that ended
AllowedOutcome(call) ==
  LET handed   == HandedValue(call)
      returned == ReturnedValue(call)
  IN IF call.entry = "prepareContentForUpload" /\ ~NoPublicTag(call.tags)
     THEN call.result.ok /\ returned = handed
     ELSE IF call.entry = "prepareContentForDisplay" /\ handed.type = "string"
     THEN call.result.ok /\ returned = handed
     ELSE IF call.result.ok
     THEN \/ returned = handed
          \/ PlainToEnvelope(call, returned)
          \/ EnvelopeToPlain(call, returned)
     ELSE TRUE

\* C22: a call through prepareContentForUpload or prepareContentForDisplay
\* that returns a value returns its input unchanged, or a complete envelope
\* of a plain input (tags without 'public', a password given), or the
\* plaintext of an envelope input (the writer's password given); a plain
\* value with a 'public' tag and a plain value on display are returned
\* unchanged.
C22_OnlyTwoTransitions ==
  \A c \in Callers :
    (calls[c].pc = "done" /\ calls[c].entry # None) => AllowedOutcome(calls[c])

\* C23: a decryptContent call with password P under identity A, made in a
\* later session than the one encryptContent(C, P) under A returned the
\* envelope in (a clear came in between), gets its key from a derivation of
\* its own session and returns C.
C23_AcrossSessions ==
  \A c \in Callers : \A e \in AllEncrypted :
    ( /\ calls[c].pc = "done"
      /\ calls[c].op = "decrypt"
      /\ calls[c].laterSession
      /\ calls[c].envelope = e.envelope
      /\ calls[c].address = e.address
      /\ calls[c].password = e.password )
    => /\ ~calls[c].staleKey
       /\ calls[c].result.ok
       /\ calls[c].result.value = e.content

\* C24: shouldEncrypt(tags) is false exactly when some tag of the list is
\* 'public' in some letter case, a whole-tag match, and true otherwise:
\* <<"Public">> and <<"PUBLIC">> give false, <<"publicize">> and <<>> give true.
C24_PublicTagPolicy ==
  /\ \A c \in Callers :
       (calls[c].pc = "done" /\ calls[c].entry = "shouldEncrypt") =>
         /\ calls[c].result.ok
         /\ calls[c].result.value = NoPublicTag(calls[c].tags)
         /\ calls[c].tags \in {<<"Public">>, <<"PUBLIC">>}
              => calls[c].result.value = FALSE
         /\ calls[c].tags \in {<<"publicize">>, <<>>}
              => calls[c].result.value = TRUE
  /\ \A c1, c2 \in Callers :
       ( /\ calls[c1].pc = "done" /\ calls[c1].entry = "shouldEncrypt"
         /\ calls[c2].pc = "done" /\ calls[c2].entry = "shouldEncrypt"
         /\ calls[c1].tags = calls[c2].tags )
       => calls[c1].result = calls[c2].result

\* One caller was told not to encrypt a list with PUBLIC in it, the other to
\* encrypt a list whose only tag is publicize
C24_Witness ==
  \E c1, c2 \in Callers :
    /\ calls[c1].pc = "done" /\ calls[c1].entry = "shouldEncrypt"
    /\ calls[c1].tags = <<"work", "PUBLIC">>
    /\ calls[c1].result = Ok(FALSE)
    /\ calls[c2].pc = "done" /\ calls[c2].entry = "shouldEncrypt"
    /\ calls[c2].tags = <<"publicize">>
    /\ calls[c2].result = Ok(TRUE)

\* The call asked isEncrypted or isPromptEncrypted
AsksStructure(call) ==
  call.pc = "done" /\ call.entry \in {"isEncrypted", "isPromptEncrypted"}

\* C25: isEncrypted(value) is true exactly when value is an object with the
\* marker isEncrypted true and encryptedContent, encryptedKey and iv present
\* (there and not empty), false for null, strings and every other object;
\* isPromptEncrypted is false for every string; two calls on the same value
\* agree whatever the tags of the item and whatever shouldEncrypt says of them.
C25_StructuralTest ==
  /\ \A c \in Callers :
       AsksStructure(calls[c]) =>
         /\ calls[c].result.ok
         /\ calls[c].result.value
              = (calls[c].content \in {Object(e) : e \in CompleteEnvelopes})
         /\ calls[c].content.type \in {"null", "string"}
              => calls[c].result.value = FALSE
  /\ \A c1, c2 \in Callers :
       ( /\ AsksStructure(calls[c1]) /\ AsksStructure(calls[c2])
         /\ calls[c1].content = calls[c2].content )
       => calls[c1].result = calls[c2].result

\* isEncrypted said yes to an envelope whose item carries a public tag, and
\* isPromptEncrypted said no to an object with an empty iv whose item
\* carries none
C25_Witness ==
  \E c1, c2 \in Callers :
    /\ calls[c1].pc = "done" /\ calls[c1].entry = "isEncrypted"
    /\ calls[c1].content.type = "object"
    /\ calls[c1].content.value = EarlierEnvelope
    /\ ~shouldEncrypt(calls[c1].tags)
    /\ calls[c1].result = Ok(TRUE)
    /\ calls[c2].pc = "done" /\ calls[c2].entry = "isPromptEncrypted"
    /\ calls[c2].content.type = "object"
    /\ calls[c2].content.value = [EarlierEnvelope EXCEPT !.iv = EmptyString]
    /\ shouldEncrypt(calls[c2].tags)
    /\ calls[c2].result = Ok(FALSE)

\* The value is an envelope as the format has it: the marker, three non-empty
\* base64 fields, an iv of 12 bytes, and an encryptedKey that decodes to a
\* 12-byte IV followed by the content key wrapped under masterBits with that
\* IV, the key the content is encrypted under
WellFormedEnvelope(r, content, masterBits) ==
  /\ r.isEncrypted = TRUE
  /\ \A f \in EnvelopeFields : IsBase64(r[f]) /\ r[f] # EmptyString
  /\ base64ToArrayBuffer(r.iv).length = 12
  /\ LET combinedKeyData == base64ToArrayBuffer(r.encryptedKey)
         wrapIv == combinedKeyData[1]
         contentKey == AesGcmDecrypt(masterBits, wrapIv, combinedKeyData[2])
     IN /\ Len(combinedKeyData) = 2
        /\ "length" \in DOMAIN wrapIv /\ wrapIv.length = 12
        /\ contentKey.ok
        /\ AesGcmDecrypt(contentKey.plaintext, base64ToArrayBuffer(r.iv),
                         base64ToArrayBuffer(r.encryptedContent))
             = [ok |-> TRUE, plaintext |-> content]

\* C26: every encryptContent call that succeeds, on the empty content too,
\* returns a value with isEncrypted true and non-empty encryptedContent,
\* encryptedKey and iv, where iv decodes to 12 bytes and encryptedKey decodes
\* to the 12-byte wrap IV followed by the wrapped content key; isEncrypted of
\* the result is true.
C26_EnvelopeWellFormed ==
  \A c \in Callers :
    (calls[c].pc = "done" /\ calls[c].op = "encrypt" /\ calls[c].result.ok) =>
      /\ WellFormedEnvelope(calls[c].result.value, calls[c].content,
                            calls[c].masterKey.bits)
      /\ isEncrypted(Object(calls[c].result.value))

\* The empty content and a non-empty one were both encrypted
C26_Witness ==
  \E c1, c2 \in Callers :
    /\ calls[c1].pc = "done" /\ calls[c1].op = "encrypt"
    /\ calls[c1].content = "" /\ calls[c1].result.ok
    /\ calls[c2].pc = "done" /\ calls[c2].op = "encrypt"
    /\ calls[c2].content = "secret value" /\ calls[c2].result.ok

\* Caller c is inside decryptContent or validatePassword, entered directly or
\* through prepareContentForDisplay
Decrypting(c) ==
  calls[c].op \in {"decrypt", "validate"} /\ calls[c].pc \notin {"idle", "done"}

\* C27: from the entry of a decryptContent, validatePassword or
\* prepareContentForDisplay call to its end, successful or failed, the
\* envelope it was given keeps the values of all four fields, and no envelope
\* that encryptContent returned is altered.
C27_EnvelopeUnchanged ==
  [][\A c \in Callers :
       Decrypting(c) =>
         /\ calls'[c].envelope = calls[c].envelope
         /\ calls[c].entry = "prepareContentForDisplay"
              => calls'[c].content = calls[c].content
         /\ {e.envelope : e \in encrypted} \subseteq {e.envelope : e \in encrypted'}]_vars

\* A display of the envelope succeeded and a validation of it was refused,
\* and both callers still hold the envelope as it was written
C27_Witness ==
  \E c1, c2 \in Callers :
    /\ calls[c1].pc = "done" /\ calls[c1].entry = "prepareContentForDisplay"
    /\ calls[c1].op = "decrypt" /\ calls[c1].result.ok
    /\ calls[c1].envelope = EarlierEnvelope
    /\ calls[c2].pc = "done" /\ calls[c2].op = "validate"
    /\ calls[c2].result = Ok(FALSE)
    /\ calls[c2].envelope = EarlierEnvelope

\* The key and the IV of the content ciphertext of an envelope, and the key
\* and the IV its content key is wrapped with
ContentCipher(envelope) == base64ToArrayBuffer(envelope.encryptedContent)
WrapIvOf(envelope) == base64ToArrayBuffer(envelope.encryptedKey)[1]
WrapCipher(envelope) == base64ToArrayBuffer(envelope.encryptedKey)[2]

MasterKeys == {DeriveKeyBits(a, p) : a \in Addresses, p \in Passwords}

\* C28: no two envelopes that encryptContent returned share a content key, a
\* content IV or a wrap IV, the two IVs of an envelope differ, and a master
\* key wraps content keys only: the content of every envelope is encrypted
\* under the content key that its encryptedKey wraps under a master key.
C28_FreshContentKeys ==
  /\ \A e1, e2 \in AllEncrypted :
       e1 # e2 =>
         /\ ContentCipher(e1.envelope).key # ContentCipher(e2.envelope).key
         /\ ContentCipher(e1.envelope).iv # ContentCipher(e2.envelope).iv
         /\ WrapIvOf(e1.envelope) # WrapIvOf(e2.envelope)
  /\ \A e \in AllEncrypted :
       /\ WrapIvOf(e.envelope) # ContentCipher(e.envelope).iv
       /\ WrapCipher(e.envelope).key \in MasterKeys
       /\ WrapCipher(e.envelope).iv = WrapIvOf(e.envelope)
       /\ WrapCipher(e.envelope).plaintext = ContentCipher(e.envelope).key
       /\ ContentCipher(e.envelope).key \notin MasterKeys
  /\ \A c1, c2 \in Callers :
       ( /\ c1 # c2
         /\ calls[c1].pc = "done" /\ calls[c1].op = "encrypt" /\ calls[c1].result.ok
         /\ calls[c2].pc = "done" /\ calls[c2].op = "encrypt" /\ calls[c2].result.ok )
       => ContentCipher(calls[c1].result.value).key
            # ContentCipher(calls[c2].result.value).key

\* Two callers that waited for the same derivation encrypted under the same
\* master key, and a third envelope of the same content and password as one
\* of them exists from the earlier session
C28_Witness ==
  \E c1, c2 \in Callers :
    /\ c1 # c2
    /\ calls[c1].pc = "done" /\ calls[c1].op = "encrypt" /\ calls[c1].result.ok
    /\ calls[c2].pc = "done" /\ calls[c2].op = "encrypt" /\ calls[c2].result.ok
    /\ calls[c1].masterKey = calls[c2].masterKey
    /\ calls[c1].via = "derived" /\ calls[c2].via = "joined"
    /\ calls[c1].content = "secret value" /\ calls[c1].password = "pw1"
    /\ calls[c1].address = "addrA"
    /\ Cardinality(AllEncrypted) = 3

\* The call needs no key: shouldEncrypt, isEncrypted, isPromptEncrypted, an
\* upload under a 'public' tag, the display of a plain string
NeedsNoKey(call) ==
  \/ call.entry \in {"shouldEncrypt", "isEncrypted", "isPromptEncrypted"}
  \/ call.entry = "prepareContentForUpload" /\ ~NoPublicTag(call.tags)
  \/ call.entry = "prepareContentForDisplay" /\ call.content.type = "string"

\* C29: a call of shouldEncrypt, isEncrypted or isPromptEncrypted, an upload
\* under a 'public' tag and the display of a plain string return at once
\* without resolving the identity or starting a derivation, and leave the four
\* session fields as they are; the session fields leave none only in a step
\* of an encrypt or decrypt call that was given a password, so a session
\* that is not none has had a derivation.
C29_LazySession ==
  /\ [][\A c \in Callers :
          (Enters(c) /\ NeedsNoKey(calls'[c])) =>
            /\ calls'[c].pc = "done"
            /\ calls'[c].result.ok
            /\ calls'[c].address = None
            /\ UNCHANGED <<session, derivations>>]_vars
  /\ [][(Cleared /\ ~Cleared') =>
          \E c \in Callers :
            /\ calls[c].pc = "hashPassword"
            /\ calls'[c].pc = "awaitDerivation"
            /\ calls[c].op \in {"encrypt", "decrypt"}
            /\ calls[c].password \notin {None, NoPassword}]_vars
  /\ [](~Cleared => derivations # <<>>)

\* A key is cached, and since then one caller has uploaded under a public tag
\* and the other has asked isPromptEncrypted, neither with an address resolved
C29_Witness ==
  /\ sessionMasterKey # NoKey
  /\ \E c1, c2 \in Callers :
       /\ calls[c1].pc = "done" /\ calls[c1].entry = "prepareContentForUpload"
       /\ calls[c1].tags = <<"work", "Public">> /\ calls[c1].address = None
       /\ calls[c1].result.ok
       /\ calls[c2].pc = "done" /\ calls[c2].entry = "isPromptEncrypted"
       /\ calls[c2].address = None

\* The values of the tags called `name` in a tag list
ValuesOf(tags, name) == {tags[i].value : i \in {j \in 1..Len(tags) : tags[j].name = name}}

\* C30: getDynamicTags(prompt, isEncrypted) with the default incrementVersion
\* emits a Version tag whose value is the decimal string of the number of
\* entries in prompt.versions.
C30_VersionIsCount ==
  \A c \in Callers :
    ( /\ calls[c].pc = "done" /\ calls[c].entry = "getDynamicTags"
      /\ calls[c].content.incrementVersion )
    => ValuesOf(calls[c].result.value, "Version")
         = {ToString(Len(calls[c].content.prompt.versions))}

\* The derivations that completed successfully
FulfilledSet == {d \in 1..Len(derivations) : derivations[d].stage = "fulfilled"}

\* C33: a derivation that completes late never overwrites the result of a
\* derivation started after it: whenever no derivation is in flight, a
\* non-empty cache holds the key of the most recently started successful
\* derivation, with the identity and fingerprint that key was derived from.
C33_LatestDerivationWins ==
  (InFlightSet = {} /\ sessionMasterKey # NoKey)
    => /\ \A d \in FulfilledSet : d <= sessionMasterKey.deriv
       /\ \E p \in Passwords :
            /\ currentPasswordHash = hashPassword(p)
            /\ sessionMasterKey.bits = DeriveKeyBits(currentWalletAddress, p)

\* C34: a completing derivation clears only its own pending handle: when a
\* derivation completes (with success or failure) while the pending handle
\* points at another derivation that is still running, the handle still
\* points at that derivation afterwards.
C34_ClearsOwnHandleOnly ==
  [][\A d \in 1..Len(derivations) :
       ( /\ Fulfils(d) \/ Rejects(d)
         /\ pendingKeyDerivation # 0
         /\ pendingKeyDerivation # d
         /\ InFlight(pendingKeyDerivation) )
       => pendingKeyDerivation' = pendingKeyDerivation]_vars

\* C35: the callers that joined an in-flight derivation share its failure:
\* in the step in which a derivation fails, every caller awaiting it (the
\* starter and the joiners) ends with that error and without a key, and the
\* step writes nothing into the session cache.
C35_JoinersShareFailure ==
  [][\A d \in 1..Len(derivations) :
       Rejects(d) =>
         /\ \A c \in Awaiting(d) :
              /\ calls'[c].pc = "done"
              /\ calls'[c].masterKey = NoKey
              /\ calls'[c].result = Err(calls[c].op, "key derivation failed")
         /\ sessionMasterKey' = sessionMasterKey
         /\ currentWalletAddress' = currentWalletAddress
         /\ currentPasswordHash' = currentPasswordHash]_vars

\* The only derivation ever started has failed, and both callers, the starter
\* and the one that joined it, ended with its error while the cache is empty
C35_Witness ==
  /\ Len(derivations) = 1
  /\ derivations[1].stage = "rejected"
  /\ sessionMasterKey = NoKey
  /\ \A c \in Callers :
       /\ calls[c].pc = "done"
       /\ calls[c].op \in {"encrypt", "decrypt"}
       /\ calls[c].masterKey = NoKey
       /\ calls[c].result = Err(calls[c].op, "key derivation failed")

\* Call c passes the cache check of getOrCreateMasterKey in this step
PassesCacheCheck(c) ==
  calls[c].pc = "hashPassword" /\ calls'[c].pc # "hashPassword"

\* C36: validatePassword is not read-only on the session.  A
\* validatePassword(envelope, "pw2") call on the envelope written with "pw1"
\* that reaches the cache check while the cache holds the key of "pw1" and no
\* derivation is pending starts a derivation; when the derivation such a call
\* started completes, the call returns false and the cache holds the key and
\* fingerprint of "pw2", so that a call with "pw1" would derive again.
C36_ValidateWritesCache ==
  [][\A c \in Callers :
       ( /\ calls[c].op = "validate" /\ calls[c].password = "pw2"
         /\ calls[c].envelope = EarlierEnvelope )
       =>
       /\ ( /\ PassesCacheCheck(c)
            /\ sessionMasterKey # NoKey
            /\ currentWalletAddress = calls[c].address
            /\ currentPasswordHash = hashPassword("pw1")
            /\ pendingKeyDerivation = 0 )
          => /\ calls'[c].pc = "awaitDerivation"
             /\ calls'[c].via = "derived"
             /\ Len(derivations') = Len(derivations) + 1
             /\ pendingKeyDerivation' = Len(derivations')
       /\ ( /\ calls[c].pc = "awaitDerivation" /\ calls[c].via = "derived"
            /\ Fulfils(calls[c].awaiting) )
          => /\ calls'[c].pc = "done"
             /\ calls'[c].result = Ok(FALSE)
             /\ sessionMasterKey'.bits = DeriveKeyBits(calls[c].address, "pw2")
             /\ sessionMasterKey'.deriv = calls[c].awaiting
             /\ currentWalletAddress' = calls[c].address
             /\ currentPasswordHash' = hashPassword("pw2")
             /\ LookupMasterKey(calls[c].address, hashPassword("pw1"))' = "derived"
     ]_vars

\* The cache held the key of "pw1" (derivation 1); a validatePassword call
\* with "pw2" then started derivation 2, returned false, and the cache holds
\* the key of "pw2"
C36_Witness ==
  /\ Len(derivations) = 2
  /\ derivations[1].stage = "fulfilled"
  /\ derivations[2].stage = "fulfilled"
  /\ sessionMasterKey.deriv = 2
  /\ sessionMasterKey.bits = DeriveKeyBits("addrA", "pw2")
  /\ currentPasswordHash = hashPassword("pw2")
  /\ \E c \in Callers :
       /\ calls[c].pc = "done" /\ calls[c].op = "validate"
       /\ calls[c].password = "pw2" /\ calls[c].envelope = EarlierEnvelope
       /\ calls[c].via = "derived"
       /\ calls[c].masterKey.deriv = 2
       /\ calls[c].result = Ok(FALSE)

\* C37: under SpecSettles every encryptContent, decryptContent and
\* validatePassword call that was entered eventually returns or fails; no
\* caller waits forever on a derivation, also when clearEncryptionCache
\* dropped the handle of the derivation it awaits.
C37_EveryCallSettles ==
  \A c \in Callers :
    (calls[c].pc \in {"getAddress", "hashPassword", "awaitDerivation"})
      ~> (calls[c].pc = "done")

\* A caller that had joined derivation 1 got its key although the handle of
\* derivation 1 was dropped by a clear while the caller was waiting
C37_Witness ==
  /\ staleCache
  /\ sessionMasterKey.deriv = 1
  /\ \E c \in Callers :
       /\ calls[c].pc = "done"
       /\ calls[c].via = "joined"
       /\ calls[c].masterKey.deriv = 1

\* The content field of the payload a call handed to turbo.upload
UploadedContent(call) == call.upload.data.json.content

\* C31: for every uploadPrompt call that reached the upload step, the
\* Encrypted upload tag is "true" exactly when the uploaded content field is
\* an envelope and "false" exactly when it is the plain string; a prompt
\* without a public tag is never uploaded with plain content, and without a
\* password its call ends with a failed result and nothing uploaded.
C31_EncryptedTagMatchesContent ==
  \A c \in Callers :
    LET call == calls[c] IN
    call.entry = "uploadPrompt" =>
      /\ call.upload.sent =>
           /\ Cardinality(ValuesOf(call.upload.tags, "Encrypted")) = 1
           /\ (ValuesOf(call.upload.tags, "Encrypted") = {"true"})
                <=> isEncrypted(UploadedContent(call))
           /\ (ValuesOf(call.upload.tags, "Encrypted") = {"false"})
                <=> (UploadedContent(call) = String(call.content))
           /\ NoPublicTag(call.tags) => isEncrypted(UploadedContent(call))
      /\ (NoPublicTag(call.tags) /\ call.password = NoPassword) =>
           /\ ~call.upload.sent
           /\ call.pc = "done"
           /\ call.uploadResult.settled /\ ~call.uploadResult.success

\* One call uploaded an envelope under Encrypted "true", another the plain
\* string of a public prompt under Encrypted "false"
C31_Witness ==
  /\ \E c \in Callers :
       /\ calls[c].entry = "uploadPrompt" /\ calls[c].upload.sent
       /\ calls[c].uploadResult.success
       /\ isEncrypted(UploadedContent(calls[c]))
       /\ ValuesOf(calls[c].upload.tags, "Encrypted") = {"true"}
  /\ \E c \in Callers :
       /\ calls[c].entry = "uploadPrompt" /\ calls[c].upload.sent
       /\ UploadedContent(calls[c]) = String(calls[c].content)
       /\ ValuesOf(calls[c].upload.tags, "Encrypted") = {"false"}

\* C32: uploadPromptBundle encrypts the content of every prompt without a
\* public tag with the cached master key: a call made while the session
\* cache holds a master key, on a bundle that contains such prompts, hands
\* turbo.upload a bundle in which their content is an envelope and
\* metadata.encrypted is their number.
C32_BundleEncryptsWithCachedKey ==
  [][\A c \in Callers :
       ( /\ calls[c].pc = "idle"
         /\ calls'[c].entry = "uploadPromptBundle"
         /\ sessionMasterKey # NoKey
         /\ \E i \in 1..Len(calls'[c].prompts) :
              NoPublicTag(calls'[c].prompts[i].tags) )
       => /\ calls'[c].upload.sent
          /\ LET bundle == calls'[c].upload.data.json IN
             /\ \A i \in 1..Len(bundle.prompts) :
                  NoPublicTag(bundle.prompts[i].tags)
                    => isEncrypted(bundle.prompts[i].content)
             /\ bundle.metadata.encrypted =
                  Cardinality({i \in 1..Len(bundle.prompts) :
                                 NoPublicTag(bundle.prompts[i].tags)})
    ]_vars

\* The transactions of allEdges that carry the Prompt-Id promptId
EdgesOf(allEdges, promptId) ==
  {i \in 1..Len(allEdges) :
     LET tag == FindTag(allEdges[i].node.tags, "Prompt-Id")
     IN tag.found /\ tag.value = promptId}

PromptIds == {"p1", "p2"}

\* Transaction i is not older than transaction k: a greater block height,
\* or the same height and no smaller version
NotOlder(allEdges, i, k) ==
  \/ HeightOf(allEdges[i]) > HeightOf(allEdges[k])
  \/ /\ HeightOf(allEdges[i]) = HeightOf(allEdges[k])
     /\ VersionOfEdge(allEdges[i]) >= VersionOfEdge(allEdges[k])

\* The result holds one transaction id for each Prompt-Id that was found and
\* none else, that of a transaction of greatest block height and, among
\* those, greatest version
LatestOnly(call) ==
  LET allEdges == call.allEdges
      txIds == call.result.value
  IN /\ Len(txIds) = Cardinality({p \in PromptIds : EdgesOf(allEdges, p) # {}})
     /\ \A p \in PromptIds :
          EdgesOf(allEdges, p) # {} =>
            \E j \in 1..Len(txIds) : \E i \in EdgesOf(allEdges, p) :
              /\ txIds[j] = allEdges[i].node.id
              /\ \A k \in EdgesOf(allEdges, p) : NotOlder(allEdges, i, k)

\* queryAllUserPrompts returns one transaction per Prompt-Id, the latest
QueryReturnsLatest ==
  \A c \in Callers :
    (calls[c].entry = "queryAllUserPrompts" /\ calls[c].pc = "done")
      => LatestOnly(calls[c])

\* C38: the pagination loop of queryAllUserPrompts terminates for every
\* sequence of responses, also when pages report hasNextPage true and are
\* empty, and the call then returns at most one transaction id per
\* Prompt-Id, the one of greatest block height and, among equal heights,
\* greatest version.
C38_PaginationTerminates ==
  /\ \A c \in Callers : (calls[c].pc = "queryLoop") ~> (calls[c].pc = "done")
  /\ []QueryReturnsLatest

====
